---- MODULE Spec2Model ----
(***************************************************************************)
(* Model of the test-case generation pipeline of src/gtc.py (validators,   *)
(* response parsing, the per-field retry loop of generate_test_cases), of  *)
(* its sibling revisions generated_test_cases.py and gtcUpdated.py         *)
(* (validators, response parsing, generate_test_cases), and of the rule    *)
(* extraction of src/pe.py and src/parse_excel.py.                         *)
(*                                                                         *)
(* JSON values are records [t, b, n, s]: t is the Python type of the value *)
(* after json.loads, b the value of a bool, n the value of an int (a float *)
(* keeps its value in tenths), s the characters of a str.                  *)
(***************************************************************************)
EXTENDS Integers, Sequences, FiniteSets, TLC

VARIABLES
    \* ---- generate_test_cases (src/gtc.py) ----
    pc,                         \* position in generate_test_cases
    rules_file,                 \* what open()/json.load will find
    rules,                      \* the loaded rules, flattened in iteration order
    max_retries,                \* self.config.get("llm_retries", 3)
    field_index,                \* index in rules of the field being processed
    attempt,                    \* loop variable of the retry loop
    generated_cases_for_field,  \* local of the retry loop
    all_test_cases,             \* the result mapping (key -> sequence)
    key_order,                  \* insertion order of the keys of all_test_cases
    processed_fields_count,
    saved,                      \* what _save_test_cases was handed
    calls,                      \* model calls made, per field index
    history,                    \* per field index: what each attempt accepted
    last_response,              \* what the model did in the latest call
    skipped,                    \* field indexes skipped at lines 310-313
    \* ---- a validator applied to one test case ----
    vcase, vtype, vapplied, vout,
    \* ---- _parse_llm_response applied to one response text ----
    ptext, ptype, papplied, pout,
    \* ---- rule extraction applied to the rows of one sheet ----
    xrows, xapplied, xout

orchestrator_vars ==
    <<pc, rules_file, rules, max_retries, field_index, attempt,
      generated_cases_for_field, all_test_cases, key_order,
      processed_fields_count, saved, calls, history, last_response, skipped>>
validator_vars == <<vcase, vtype, vapplied, vout>>
parser_vars == <<ptext, ptype, papplied, pout>>
extractor_vars == <<xrows, xapplied, xout>>
vars == <<orchestrator_vars, validator_vars, parser_vars, extractor_vars>>

-----------------------------------------------------------------------------
(* Bounds of the model *)

\* longest rules file, in fields
MaxFields == 2
\* largest configured llm_retries
MaxRetries == 3

-----------------------------------------------------------------------------
(* JSON values *)

JNull == [t |-> "null", b |-> FALSE, n |-> 0, s |-> <<>>]
JBool(x) == [t |-> "bool", b |-> x, n |-> 0, s |-> <<>>]
JInt(x) == [t |-> "int", b |-> FALSE, n |-> x, s |-> <<>>]
JFloat(tenths) == [t |-> "float", b |-> FALSE, n |-> tenths, s |-> <<>>]
JStr(chars) == [t |-> "str", b |-> FALSE, n |-> 0, s |-> chars]
JList == [t |-> "list", b |-> FALSE, n |-> 0, s |-> <<>>]
JDict == [t |-> "dict", b |-> FALSE, n |-> 0, s |-> <<>>]

\* value of a Python number (bool is a subclass of int), in tenths
NumTenths(v) ==
    CASE v.t = "bool" -> (IF v.b THEN 10 ELSE 0)
      [] v.t = "int" -> v.n * 10
      [] OTHER -> v.n

IsNumber(v) == v.t \in {"bool", "int", "float"}

\* Python's a == b on JSON values
PyEq(a, b) ==
    IF IsNumber(a) /\ IsNumber(b) THEN NumTenths(a) = NumTenths(b)
    ELSE a.t = b.t /\ a.s = b.s

\* Python's x in [..]
PyIn(x, list) == \E i \in 1..Len(list) : PyEq(x, list[i])

\* isinstance(x, str), isinstance(x, int)
IsInstanceStr(v) == v.t = "str"
IsInstanceInt(v) == v.t \in {"int", "bool"}

LowerChar(c) ==
    CASE c = "A" -> "a" [] c = "B" -> "b" [] c = "C" -> "c" [] c = "D" -> "d"
      [] c = "E" -> "e" [] c = "F" -> "f" [] c = "G" -> "g" [] c = "H" -> "h"
      [] c = "I" -> "i" [] c = "J" -> "j" [] c = "K" -> "k" [] c = "L" -> "l"
      [] c = "M" -> "m" [] c = "N" -> "n" [] c = "O" -> "o" [] c = "P" -> "p"
      [] c = "Q" -> "q" [] c = "R" -> "r" [] c = "S" -> "s" [] c = "T" -> "t"
      [] c = "U" -> "u" [] c = "V" -> "v" [] c = "W" -> "w" [] c = "X" -> "x"
      [] c = "Y" -> "y" [] c = "Z" -> "z" [] OTHER -> c

\* str.lower()
Lower(chars) == [i \in 1..Len(chars) |-> LowerChar(chars[i])]

-----------------------------------------------------------------------------
(* Strings used by the code and by the sample inputs *)

S_Pass == <<"P","a","s","s">>
S_Fail == <<"F","a","i","l">>
S_pass == <<"p","a","s","s">>
S_PASS == <<"P","A","S","S">>
S_True == <<"T","r","u","e">>
S_False == <<"F","a","l","s","e">>
S_true == <<"t","r","u","e">>
S_false == <<"f","a","l","s","e">>
S_TRUE == <<"T","R","U","E">>
S_maybe == <<"m","a","y","b","e">>
S_one == <<"1">>
S_iso == <<"2","0","2","3","-","0","1","-","1","5">>
S_feb30 == <<"2","0","2","3","-","0","2","-","3","0">>
S_leap == <<"2","0","2","4","-","0","2","-","2","9">>
S_noleap == <<"2","0","2","3","-","0","2","-","2","9">>
S_c1900 == <<"1","9","0","0","-","0","2","-","2","9">>
S_c2000 == <<"2","0","0","0","-","0","2","-","2","9">>
S_year0 == <<"0","0","0","0","-","0","1","-","0","1">>
S_month13 == <<"2","0","2","3","-","1","3","-","0","1">>
S_short == <<"2","0","2","3","-","1","-","5">>
S_slash == <<"2","0","2","3","/","0","1","/","1","5">>
S_us == <<"0","1","/","1","5","/","2","0","2","3">>
S_dmy == <<"1","5","-","0","1","-","2","0","2","3">>
S_secs == <<"2","0","2","3","-","0","1","-","1","5"," ","1","0",":","3","0",":","0","0">>
S_micro == <<"2","0","2","3","-","0","1","-","1","5"," ","1","0",":","3","0",":","0","0",".","1","2","3","4","5","6">>
S_sec60 == <<"2","0","2","3","-","0","1","-","1","5"," ","1","0",":","3","0",":","6","0">>
S_trail == <<"2","0","2","3","-","0","1","-","1","5","x">>
S_notadate == <<"n","o","t","-","a","-","d","a","t","e">>

-----------------------------------------------------------------------------
(* datetime.strptime(data_string, format), as called by the validators.    *)
(* A format is a sequence of directives ("%Y", ...) and literal            *)
(* characters.  strptime compiles the format to a regular expression,      *)
(* matches it at the start of the string, raises ValueError when the       *)
(* match fails or leaves characters over, and then builds the datetime,    *)
(* which raises ValueError for a value out of range.  In the formats of    *)
(* the validators every directive but the last is followed by a literal    *)
(* separator, so the first match of the expression is the only one and     *)
(* the set of complete parses below has at most one field assignment.      *)

Digits == {"0","1","2","3","4","5","6","7","8","9"}

DigitVal(c) ==
    CASE c = "0" -> 0 [] c = "1" -> 1 [] c = "2" -> 2 [] c = "3" -> 3
      [] c = "4" -> 4 [] c = "5" -> 5 [] c = "6" -> 6 [] c = "7" -> 7
      [] c = "8" -> 8 [] c = "9" -> 9 [] OTHER -> 0

\* s[i..j] are all digits (and inside s)
AllDigits(s, i, j) == j <= Len(s) /\ \A k \in i..j : s[k] \in Digits

\* int() of the characters s[i..j]; a leading space (of "%d") is skipped
RECURSIVE IntOf(_, _, _)
IntOf(s, i, j) ==
    IF j < i THEN 0
    ELSE IntOf(s, i, j - 1) * 10 + DigitVal(s[j])

IsDirective(tok) == tok \in {"%Y", "%m", "%d", "%H", "%M", "%S", "%f"}

\* the two-character alternatives of a directive's regular expression
TwoDigitOk(dir, v) ==
    CASE dir = "%m" -> v \in 1..12            \* 1[0-2]|0[1-9]
      [] dir = "%d" -> v \in 1..31            \* 3[0-1]|[1-2]\d|0[1-9]
      [] dir = "%H" -> v \in 0..23            \* 2[0-3]|[0-1]\d
      [] dir = "%M" -> v \in 0..59            \* [0-5]\d
      [] dir = "%S" -> v \in 0..61            \* 6[0-1]|[0-5]\d
      [] OTHER -> FALSE

\* the one-character alternative
OneDigitOk(dir, v) ==
    CASE dir \in {"%m", "%d"} -> v \in 1..9   \* [1-9]
      [] dir \in {"%H", "%M", "%S"} -> TRUE   \* \d
      [] OTHER -> FALSE

\* the positions j such that s[i..j] matches the directive
DirEnds(dir, s, i) ==
    IF dir = "%Y" THEN {j \in {i + 3} : AllDigits(s, i, j)}
    ELSE IF dir = "%f" THEN {j \in i..(i + 5) : AllDigits(s, i, j)}
    ELSE {j \in {i + 1} : AllDigits(s, i, j)
                          /\ TwoDigitOk(dir, IntOf(s, i, j))}
         \cup {j \in {i} : AllDigits(s, i, j) /\ OneDigitOk(dir, IntOf(s, i, j))}
         \cup {j \in {i + 1} : dir = "%d" /\ j <= Len(s) /\ s[i] = " "
                               /\ s[j] \in Digits \ {"0"}}

NoFields == [Y |-> 1900, m |-> 1, d |-> 1, H |-> 0, M |-> 0, S |-> 0]

SetField(acc, dir, v) ==
    CASE dir = "%Y" -> [acc EXCEPT !.Y = v]
      [] dir = "%m" -> [acc EXCEPT !.m = v]
      [] dir = "%d" -> [acc EXCEPT !.d = v]
      [] dir = "%H" -> [acc EXCEPT !.H = v]
      [] dir = "%M" -> [acc EXCEPT !.M = v]
      [] dir = "%S" -> [acc EXCEPT !.S = v]
      [] OTHER -> acc

\* the field assignments under which fmt[k..] matches exactly s[i..]
RECURSIVE Parses(_, _, _, _, _)
Parses(fmt, k, s, i, acc) ==
    IF k > Len(fmt) THEN (IF i = Len(s) + 1 THEN {acc} ELSE {})
    ELSE IF IsDirective(fmt[k]) THEN
        UNION {Parses(fmt, k + 1, s, j + 1,
                      SetField(acc, fmt[k], IntOf(s, i, j))) : j \in DirEnds(fmt[k], s, i)}
    ELSE IF fmt[k] = " " THEN      \* whitespace in a format matches \s+
        UNION {Parses(fmt, k + 1, s, j + 1, acc) :
                   j \in {e \in i..Len(s) : \A x \in i..e : s[x] = " "}}
    ELSE IF i <= Len(s) /\ LowerChar(s[i]) = LowerChar(fmt[k])
        THEN Parses(fmt, k + 1, s, i + 1, acc)
        ELSE {}

IsLeap(y) == (y % 4 = 0 /\ y % 100 # 0) \/ y % 400 = 0

DaysInMonth(y, m) ==
    IF m = 2 THEN (IF IsLeap(y) THEN 29 ELSE 28)
    ELSE IF m \in {4, 6, 9, 11} THEN 30 ELSE 31

\* the datetime constructor accepts the parsed fields
ValidDatetime(p) ==
    /\ p.Y >= 1
    /\ p.m \in 1..12
    /\ p.d \in 1..DaysInMonth(p.Y, p.m)
    /\ p.H \in 0..23 /\ p.M \in 0..59 /\ p.S \in 0..59

\* datetime.strptime(s, fmt) returns (does not raise ValueError)
strptime(s, fmt) == \E p \in Parses(fmt, 1, s, 1, NoFields) : ValidDatetime(p)

-----------------------------------------------------------------------------
(* src/gtc.py: the validators *)

\* the key sets a record of the model output can have
RequiredFields == {"test_case", "description", "expected_result", "input"}

\* self.field_specific_rules["Date"]["valid_formats"]
Date_valid_formats ==
    << <<"%Y","-","%m","-","%d"," ","%H",":","%M",":","%S",".","%f">>,
       <<"%Y","-","%m","-","%d"," ","%H",":","%M",":","%S">>,
       <<"%Y","-","%m","-","%d">>,
       <<"%Y","/","%m","/","%d">>,
       <<"%m","/","%d","/","%Y">> >>

Ok == [ok |-> TRUE, msg |-> ""]
Rejected(reason) == [ok |-> FALSE, msg |-> reason]

\* _validate_date_format without "%Y-%m-%d" among the formats
validate_date_format_no_iso(test_case) ==
    IF test_case.input.t = "null" THEN Ok
    ELSE IF IsInstanceStr(test_case.input) THEN
        IF \E i \in {1, 2, 4, 5} :
               strptime(test_case.input.s, Date_valid_formats[i])
        THEN Ok
        ELSE Rejected("Invalid date format")
    ELSE Rejected("Date input must be a string")

validate_date_format(test_case) ==
    IF test_case.input.t = "null" THEN Ok
    ELSE IF IsInstanceStr(test_case.input) THEN
        IF \E i \in 1..Len(Date_valid_formats) :
               strptime(test_case.input.s, Date_valid_formats[i])
        THEN Ok
        ELSE Rejected("Invalid date format")
    ELSE Rejected("Date input must be a string")

\* _validate_string_format rejecting a non-string input whatever the
\* expected_result
validate_string_format_strict(test_case) ==
    IF test_case.input.t = "null" THEN Ok
    ELSE IF ~(IsInstanceStr(test_case.input) \/ test_case.input.t = "null")
         THEN Rejected("String field with non-string input should fail")
         ELSE Ok

validate_string_format(test_case) ==
    IF test_case.input.t = "null" THEN Ok
    ELSE IF ~(IsInstanceStr(test_case.input) \/ test_case.input.t = "null")
            /\ PyEq(test_case.expected_result, JStr(S_Pass))
         THEN Rejected("String field with non-string input should fail")
         ELSE Ok

valid_booleans ==
    <<JBool(TRUE), JBool(FALSE), JStr(S_True), JStr(S_False),
      JStr(S_true), JStr(S_false), JInt(1), JInt(0)>>

\* _validate_boolean_format without the early return for a null input
validate_boolean_format_no_null(test_case) ==
    IF PyEq(test_case.expected_result, JStr(S_Pass))
       /\ ~PyIn(test_case.input, valid_booleans)
    THEN Rejected("Boolean field with non-boolean input should fail")
    ELSE Ok

\* _validate_boolean_format comparing strings without regard to case
validate_boolean_format_nocase(test_case) ==
    IF test_case.input.t = "null" THEN Ok
    ELSE IF PyEq(test_case.expected_result, JStr(S_Pass))
            /\ ~PyIn([test_case.input EXCEPT !.s = Lower(@)], valid_booleans)
         THEN Rejected("Boolean field with non-boolean input should fail")
         ELSE Ok

\* _validate_boolean_format taking the truth value of a string input
validate_boolean_format_truthy(test_case) ==
    IF test_case.input.t = "null" THEN Ok
    ELSE IF PyEq(test_case.expected_result, JStr(S_Pass))
            /\ ~PyIn(test_case.input, valid_booleans)
            /\ ~(test_case.input.t = "str" /\ test_case.input.s # <<>>)
         THEN Rejected("Boolean field with non-boolean input should fail")
         ELSE Ok

validate_boolean_format(test_case) ==
    IF test_case.input.t = "null" THEN Ok
    ELSE IF PyEq(test_case.expected_result, JStr(S_Pass))
            /\ ~PyIn(test_case.input, valid_booleans)
         THEN Rejected("Boolean field with non-boolean input should fail")
         ELSE Ok

\* the keys of self.field_specific_rules
field_specific_rules == {"Date", "String", "Boolean"}

extra_validation(data_type, test_case) ==
    CASE data_type = "Date" -> validate_date_format(test_case)
      [] data_type = "String" -> validate_string_format(test_case)
      [] data_type = "Boolean" -> validate_boolean_format(test_case)
      [] OTHER -> Ok

validate_test_case(test_case, data_type) ==
    IF ~(RequiredFields \subseteq test_case.keys)
        THEN Rejected("Missing required fields")
    ELSE IF ~PyIn(test_case.expected_result, <<JStr(S_Pass), JStr(S_Fail)>>)
        THEN Rejected("Invalid expected_result value")
    ELSE IF data_type \in field_specific_rules
        THEN extra_validation(data_type, test_case)
    ELSE Ok

-----------------------------------------------------------------------------
(* src/generated_test_cases.py: the validator of Long fields *)

gen_validate_long_format(test_case) ==
    IF test_case.input.t = "null" THEN Ok
    ELSE IF ~IsInstanceInt(test_case.input)
            /\ PyEq(test_case.expected_result, JStr(S_Pass))
         THEN Rejected("Long field with non-integer input should fail")
         ELSE Ok

\* self.field_specific_rules[data_type]["valid_formats"] of
\* src/generated_test_cases.py
gen_Date_valid_formats ==
    << <<"%Y","-","%m","-","%d">>,
       <<"%m","/","%d","/","%Y">>,
       <<"%Y","/","%m","/","%d">>,
       <<"%m","-","%d","-","%Y">> >>

gen_DateTime_valid_formats ==
    << <<"%Y","-","%m","-","%d"," ","%H",":","%M",":","%S",".","%f">> >>

gen_valid_formats(data_type) ==
    IF data_type = "DateTime" THEN gen_DateTime_valid_formats
    ELSE gen_Date_valid_formats

\* _validate_date_format(test_case, data_type="Date")
gen_validate_date_format(test_case, data_type) ==
    IF test_case.input.t = "null" THEN Ok
    ELSE IF IsInstanceStr(test_case.input) THEN
        IF \E i \in 1..Len(gen_valid_formats(data_type)) :
               strptime(test_case.input.s, gen_valid_formats(data_type)[i])
        THEN Ok
        ELSE Rejected("Invalid date format")
    ELSE Rejected("input must be a string")

gen_validate_string_format(test_case) ==
    IF test_case.input.t = "null" THEN Ok
    ELSE IF ~(IsInstanceStr(test_case.input) \/ test_case.input.t = "null")
            /\ PyEq(test_case.expected_result, JStr(S_Pass))
         THEN Rejected("String field with non-string input should fail")
         ELSE Ok

\* the keys of self.field_specific_rules
gen_field_specific_rules == {"Date", "String", "DateTime", "Long"}

\* the registered validator called with the test case alone: the data_type
\* of _validate_date_format keeps its default
gen_extra_validation(data_type, test_case) ==
    CASE data_type = "Date" -> gen_validate_date_format(test_case, "Date")
      [] data_type = "DateTime" -> gen_validate_date_format(test_case, "Date")
      [] data_type = "String" -> gen_validate_string_format(test_case)
      [] data_type = "Long" -> gen_validate_long_format(test_case)
      [] OTHER -> Ok

gen_validate_test_case(test_case, data_type) ==
    IF ~(RequiredFields \subseteq test_case.keys)
        THEN Rejected("Missing required fields")
    ELSE IF ~PyIn(test_case.expected_result, <<JStr(S_Pass), JStr(S_Fail)>>)
        THEN Rejected("Invalid expected_result value")
    ELSE IF data_type \in gen_field_specific_rules
        THEN gen_extra_validation(data_type, test_case)
    ELSE Ok

-----------------------------------------------------------------------------
(* src/gtcUpdated.py: the validator of Date fields *)

upd_Date_valid_formats ==
    << <<"%Y","-","%m","-","%d"," ","%H",":","%M",":","%S",".","%f">> >>

upd_validate_date_format(test_case) ==
    IF test_case.input.t = "null" THEN Ok
    ELSE IF IsInstanceStr(test_case.input) THEN
        IF \E i \in 1..Len(upd_Date_valid_formats) :
               strptime(test_case.input.s, upd_Date_valid_formats[i])
        THEN Ok
        ELSE IF PyEq(test_case.expected_result, JStr(S_Pass))
             THEN Rejected("Invalid date format") ELSE Ok
    ELSE IF PyEq(test_case.expected_result, JStr(S_Pass))
         THEN Rejected("Date input must be a string for a 'Pass' case")
         ELSE Ok

-----------------------------------------------------------------------------
(* Sample inputs *)

InputPool ==
    {JNull, JBool(TRUE), JBool(FALSE), JInt(0), JInt(1), JInt(2), JInt(-1),
     JFloat(10), JFloat(15), JFloat(0), JList, JDict}
    \cup {JStr(c) : c \in
           {<<>>, S_True, S_False, S_true, S_false, S_TRUE, S_maybe, S_one,
            S_iso, S_feb30, S_leap, S_noleap, S_c1900, S_c2000, S_year0,
            S_month13, S_short, S_slash, S_us, S_dmy, S_secs, S_micro,
            S_sec60, S_trail, S_notadate}}

ExpectedPool == {JStr(S_Pass), JStr(S_Fail), JStr(S_PASS), JStr(S_pass), JNull}

KeySetPool == {RequiredFields, RequiredFields \ {"input"},
               RequiredFields \ {"expected_result"}}

S_TC1 == <<"T","C","1">>
S_d == <<"d">>

\* a record of the model output; a missing key holds null in the model
Case(keys, expected_result, input) ==
    [keys |-> keys,
     test_case |-> JStr(S_TC1),
     description |-> JStr(S_d),
     expected_result |-> IF "expected_result" \in keys THEN expected_result ELSE JNull,
     input |-> IF "input" \in keys THEN input ELSE JNull]

\* the record with another value under the key test_case
Named(case, test_case) == [case EXCEPT !.test_case = test_case]

\* the record with another description
Described(case, description) == [case EXCEPT !.description = JStr(description)]

\* values of test_case that are no identifier
NamePool == {JStr(<<>>), JInt(7), JNull}

CasePool ==
    {Case(k, e, i) : k \in KeySetPool, e \in ExpectedPool, i \in InputPool}
    \cup {Named(Case(RequiredFields, e, i), t) :
             e \in {JStr(S_Pass), JStr(S_Fail)},
             i \in {JNull, JStr(S_iso), JBool(TRUE)},
             t \in NamePool}

\* declared types: those of the validators, and those no validator knows
DataTypes ==
    {"Date", "String", "Boolean", "Long", "Float", "Integer", "DateTime"}

StructurallyValid(c) ==
    /\ RequiredFields \subseteq c.keys
    /\ c.expected_result \in {JStr(S_Pass), JStr(S_Fail)}

-----------------------------------------------------------------------------
(* Model responses.  A response is what the client does when called: it    *)
(* raises, or it answers with no text, or with a text; a text is modelled  *)
(* by what json.loads makes of it after the cleaning of                    *)
(* _parse_llm_response: nothing (malformed), a value that is no array, or  *)
(* an array of elements.                                                   *)

NoCase == Case({}, JNull, JNull)

\* a parsed JSON value: a record (dict) or another value; a list has its
\* elements in items
DictEl(c) == [kind |-> "dict", case |-> c, items |-> <<>>]
OtherEl(kind) == [kind |-> kind, case |-> NoCase, items |-> <<>>]
ListEl(items) == [kind |-> "list", case |-> NoCase, items |-> items]

Response(raises, text, items) == [raises |-> raises, text |-> text, items |-> items]

C_pass_maybe == Case(RequiredFields, JStr(S_Pass), JStr(S_maybe))
C_fail_notadate == Case(RequiredFields, JStr(S_Fail), JStr(S_notadate))
C_pass_iso == Case(RequiredFields, JStr(S_Pass), JStr(S_iso))
C_pass_true == Case(RequiredFields, JStr(S_Pass), JBool(TRUE))
C_fail_one == Case(RequiredFields, JStr(S_Fail), JInt(1))
C_upper == Case(RequiredFields, JStr(S_PASS), JNull)
C_nokey == Case(RequiredFields \ {"input"}, JStr(S_Pass), JNull)

R_raise == Response(TRUE, "none", <<>>)
R_none == Response(FALSE, "none", <<>>)
R_empty == Response(FALSE, "empty", <<>>)
R_malformed == Response(FALSE, "malformed", <<>>)
R_object == Response(FALSE, "object", <<>>)
R_emptylist == Response(FALSE, "array", <<>>)
R_maybe == Response(FALSE, "array", <<DictEl(C_pass_maybe)>>)
R_notadate == Response(FALSE, "array", <<DictEl(C_fail_notadate)>>)
R_iso_true == Response(FALSE, "array", <<DictEl(C_pass_iso), DictEl(C_pass_true)>>)
R_null_element == Response(FALSE, "array", <<OtherEl("null"), DictEl(C_pass_true)>>)
R_mixed == Response(FALSE, "array",
                    <<DictEl(C_nokey), DictEl(C_upper), OtherEl("str"), DictEl(C_fail_one)>>)

Responses ==
    {R_raise, R_none, R_empty, R_malformed, R_object, R_emptylist, R_maybe,
     R_notadate, R_iso_true, R_null_element, R_mixed}

-----------------------------------------------------------------------------
(* src/llm.py *)

\* what generate_test_cases_with_llm hands back: it raised, or a text or None
Returned(raised, response) == [raised |-> raised, response |-> response]

\* every exception of the client is caught and None is returned
generate_test_cases_with_llm(response) ==
    IF response.raises THEN Returned(FALSE, R_none)
    ELSE Returned(FALSE, response)

-----------------------------------------------------------------------------
(* src/gtc.py: _parse_llm_response *)

None == [none |-> TRUE, cases |-> <<>>]
List(cases) == [none |-> FALSE, cases |-> cases]

\* Python's truth value of an Optional[List]
Truthy(x) == ~x.none /\ Len(x.cases) > 0

\* `field in test_case` raises TypeError for these elements
RaisesTypeError(el) == el.kind \in {"null", "int", "float", "bool"}

\* is_valid of one element of the array
ElementValid(el, data_type) ==
    /\ el.kind = "dict"       \* a str or a list holds none of the four keys
    /\ validate_test_case(el.case, data_type).ok

\* line 269 storing the lower-cased token
normalize_expected_result_lower(case) ==
    [case EXCEPT !.expected_result = JStr(Lower(@.s))]

\* line 269
normalize_expected_result(case) ==
    [case EXCEPT !.expected_result =
        IF Lower(@.s) = S_pass THEN JStr(S_Pass) ELSE JStr(S_Fail)]

\* validated_cases that puts each accepted record in front of the earlier ones
RECURSIVE validated_cases_reversed(_, _)
validated_cases_reversed(items, data_type) ==
    IF items = <<>> THEN <<>>
    ELSE LET rest == validated_cases_reversed(Tail(items), data_type)
         IN IF ElementValid(Head(items), data_type)
            THEN rest \o <<normalize_expected_result(Head(items).case)>>
            ELSE rest

\* lines 263-271
RECURSIVE validated_cases(_, _)
validated_cases(items, data_type) ==
    IF items = <<>> THEN <<>>
    ELSE LET rest == validated_cases(Tail(items), data_type)
         IN IF ElementValid(Head(items), data_type)
            THEN <<normalize_expected_result(Head(items).case)>> \o rest
            ELSE rest

\* _parse_llm_response giving up on the whole array at the first element
\* that is not valid
parse_llm_response_all_or_nothing(response, data_type) ==
    IF response.text # "array" THEN None
    ELSE IF \E i \in 1..Len(response.items) :
                ~ElementValid(response.items[i], data_type)
         THEN None
    ELSE List(validated_cases(response.items, data_type))

parse_llm_response(response, data_type) ==
    IF response.text # "array" THEN None   \* JSONDecodeError, or not a list
    ELSE IF \E i \in 1..Len(response.items) :
                /\ RaisesTypeError(response.items[i])
         THEN None
    ELSE List(validated_cases(response.items, data_type))

-----------------------------------------------------------------------------
(* Response texts.  A text is a sequence of pieces: one character, or the  *)
(* JSON text of one record (an object literal "{...}").  The strings of a  *)
(* record hold no grave accent, no backslash and no quote; what the        *)
(* substitutions of gtcUpdated.py do inside them is upd_repair_record.     *)

Ch(c) == [k |-> "ch", c |-> c, case |-> NoCase]
Obj(case) == [k |-> "obj", c |-> "{", case |-> case]

Chars(s) == [i \in 1..Len(s) |-> Ch(s[i])]

\* \s of the regular expressions, and the whitespace of str.strip and JSON
IsWs(p) == p.k = "ch" /\ p.c \in {" ", "\n", "\t", "\r"}

\* \w of the regular expressions
WordChars ==
    Digits \cup {"_"} \cup
    {"a","b","c","d","e","f","g","h","i","j","k","l","m","n","o","p","q","r",
     "s","t","u","v","w","x","y","z",
     "A","B","C","D","E","F","G","H","I","J","K","L","M","N","O","P","Q","R",
     "S","T","U","V","W","X","Y","Z"}
IsWordCh(p) == p.k = "ch" /\ p.c \in WordChars

\* the grave accent, which a TLA+ string cannot hold
Backtick == "<grave>"

S_fence == <<Backtick, Backtick, Backtick>>
S_fence_json == S_fence \o <<"j","s","o","n">>
S_null == <<"n","u","l","l">>
S_none == <<"n","o","n","e">>
S_fail == <<"f","a","i","l">>

\* text[i..] begins with the characters chars
LitAt(text, i, chars) ==
    /\ i >= 1
    /\ i + Len(chars) - 1 <= Len(text)
    /\ \A j \in 1..Len(chars) : text[i + j - 1] = Ch(chars[j])

\* the same, ignoring case (re.IGNORECASE); chars is lower-case
LitAtNoCase(text, i, chars) ==
    /\ i >= 1
    /\ i + Len(chars) - 1 <= Len(text)
    /\ \A j \in 1..Len(chars) :
          /\ text[i + j - 1].k = "ch"
          /\ LowerChar(text[i + j - 1].c) = chars[j]

From(text, i) == SubSeq(text, i, Len(text))

RECURSIVE SkipWs(_, _)
SkipWs(text, i) ==
    IF i <= Len(text) /\ IsWs(text[i]) THEN SkipWs(text, i + 1) ELSE i

RECURSIVE SkipWsBack(_, _)
SkipWsBack(text, i) ==
    IF i >= 1 /\ IsWs(text[i]) THEN SkipWsBack(text, i - 1) ELSE i

\* str.strip()
Strip(text) == SubSeq(text, SkipWs(text, 1), SkipWsBack(text, Len(text)))

\* str.replace(chars, "")
RECURSIVE Remove(_, _)
Remove(text, chars) ==
    IF text = <<>> THEN <<>>
    ELSE IF LitAt(text, 1, chars)
         THEN Remove(From(text, Len(chars) + 1), chars)
         ELSE <<Head(text)>> \o Remove(Tail(text), chars)

\* re.sub(r'\\([^"\\])', r'\\\\\1', text): a backslash before anything but a
\* quote or a backslash is doubled
RECURSIVE EscapeBackslashes(_)
EscapeBackslashes(text) ==
    IF text = <<>> THEN <<>>
    ELSE IF /\ Head(text) = Ch("\\")
            /\ Len(text) >= 2
            /\ text[2] \notin {Ch("\""), Ch("\\")}
         THEN <<Ch("\\"), Ch("\\"), text[2]>> \o EscapeBackslashes(From(text, 3))
         ELSE <<Head(text)>> \o EscapeBackslashes(Tail(text))

-----------------------------------------------------------------------------
(* json.loads on a text *)

Scanned(ok, el, items, next) == [ok |-> ok, el |-> el, items |-> items, next |-> next]
Bad == Scanned(FALSE, OtherEl("null"), <<>>, 0)

RECURSIVE SkipDigits(_, _)
SkipDigits(text, i) ==
    IF i <= Len(text) /\ text[i].k = "ch" /\ text[i].c \in Digits
    THEN SkipDigits(text, i + 1) ELSE i

\* the position after the closing quote of the string whose first character
\* is at i, or 0 where the string is not terminated or not valid
RECURSIVE SkipString(_, _)
SkipString(text, i) ==
    IF i > Len(text) \/ text[i].k # "ch" \/ text[i].c \in {"\n", "\t", "\r"} THEN 0
    ELSE IF text[i] = Ch("\"") THEN i + 1
    ELSE IF text[i] = Ch("\\")
         THEN IF /\ i + 1 <= Len(text)
                 /\ text[i + 1] \in {Ch("\""), Ch("\\"), Ch("/"), Ch("b"),
                                     Ch("f"), Ch("n"), Ch("r"), Ch("t")}
              THEN SkipString(text, i + 2) ELSE 0
    ELSE SkipString(text, i + 1)

\* the values of the keys the record holds
ValuesOf(case) ==
    LET value(k) == IF k = "test_case" THEN case.test_case
                    ELSE IF k = "description" THEN case.description
                    ELSE IF k = "expected_result" THEN case.expected_result
                    ELSE case.input
        order == <<"test_case", "description", "expected_result", "input">>
        held == SelectSeq(order, LAMBDA k : k \in case.keys)
    IN [n \in 1..Len(held) |-> OtherEl(value(held[n]).t)]

\* d[key] = el on the pairs of an object: a key met again keeps its place
Put(pairs, key, el) ==
    IF \E n \in 1..Len(pairs) : pairs[n].key = key
    THEN [n \in 1..Len(pairs) |->
             IF pairs[n].key = key THEN [key |-> key, el |-> el] ELSE pairs[n]]
    ELSE Append(pairs, [key |-> key, el |-> el])

RECURSIVE ScanValue(_, _)
RECURSIVE ScanArray(_, _, _, _)
RECURSIVE ScanObject(_, _, _, _)

\* the JSON value that starts at i
ScanValue(text, i) ==
    IF i > Len(text) THEN Bad
    ELSE IF text[i].k = "obj"
         THEN Scanned(TRUE, DictEl(text[i].case), ValuesOf(text[i].case), i + 1)
    ELSE IF LitAt(text, i, S_null) THEN Scanned(TRUE, OtherEl("null"), <<>>, i + 4)
    ELSE IF LitAt(text, i, S_true) THEN Scanned(TRUE, OtherEl("bool"), <<>>, i + 4)
    ELSE IF LitAt(text, i, S_false) THEN Scanned(TRUE, OtherEl("bool"), <<>>, i + 5)
    ELSE IF text[i].c \in Digits
         THEN IF text[i].c = "0" /\ SkipDigits(text, i) > i + 1 THEN Bad
              ELSE Scanned(TRUE, OtherEl("int"), <<>>, SkipDigits(text, i))
    ELSE IF text[i] = Ch("\"")
         THEN LET e == SkipString(text, i + 1)
              IN IF e = 0 THEN Bad ELSE Scanned(TRUE, OtherEl("str"), <<>>, e)
    ELSE IF text[i] = Ch("[")
         THEN LET a == ScanArray(text, i + 1, <<>>, "first")
              IN IF a.ok THEN Scanned(TRUE, ListEl(a.items), a.items, a.next) ELSE Bad
    ELSE IF text[i] = Ch("{") THEN ScanObject(text, i + 1, <<>>, "first")
    ELSE Bad

\* the rest of an array from i on; expect is what may come next: "first"
\* (a value or the closing bracket), "value", or "sep" (a comma or the
\* closing bracket)
ScanArray(text, i, acc, expect) ==
    LET j == SkipWs(text, i)
    IN IF j > Len(text) THEN Bad
       ELSE IF text[j] = Ch("]") /\ expect \in {"first", "sep"}
            THEN Scanned(TRUE, OtherEl("list"), acc, j + 1)
       ELSE IF expect = "sep"
            THEN IF text[j] = Ch(",") THEN ScanArray(text, j + 1, acc, "value") ELSE Bad
       ELSE LET v == ScanValue(text, j)
            IN IF v.ok THEN ScanArray(text, v.next, Append(acc, v.el), "sep") ELSE Bad

\* the rest of an object written out in characters, from i on; pairs holds
\* the keys met and their values; expect is what may come next: "first" (a
\* key or the closing brace), "key", or "sep" (a comma or the closing
\* brace).  Such an object holds none of the keys of a test case.
ScanObject(text, i, pairs, expect) ==
    LET j == SkipWs(text, i)
    IN IF j > Len(text) THEN Bad
       ELSE IF text[j] = Ch("}") /\ expect \in {"first", "sep"}
            THEN Scanned(TRUE, DictEl(NoCase),
                         [n \in 1..Len(pairs) |-> pairs[n].el], j + 1)
       ELSE IF expect = "sep"
            THEN IF text[j] = Ch(",") THEN ScanObject(text, j + 1, pairs, "key") ELSE Bad
       ELSE IF text[j] # Ch("\"") THEN Bad
       ELSE LET e == SkipString(text, j + 1)
                c == SkipWs(text, e)
            IN IF e = 0 \/ c > Len(text) THEN Bad
               ELSE IF text[c] # Ch(":") THEN Bad
               ELSE LET v == ScanValue(text, SkipWs(text, c + 1))
                    IN IF v.ok
                       THEN ScanObject(text, v.next,
                                       Put(pairs, SubSeq(text, j + 1, e - 2), v.el),
                                       "sep")
                       ELSE Bad

\* json.loads(text), as a response: "malformed" where it raises
\* JSONDecodeError, "array" with the elements, "object" with the values of
\* its keys, or "scalar"
JsonLoads(text) ==
    LET v == ScanValue(text, SkipWs(text, 1))
    IN IF ~v.ok \/ SkipWs(text, v.next) <= Len(text)
       THEN Response(FALSE, "malformed", <<>>)
       ELSE IF v.el.kind = "list" THEN Response(FALSE, "array", v.items)
       ELSE IF v.el.kind = "dict" THEN Response(FALSE, "object", v.items)
       ELSE Response(FALSE, "scalar", <<>>)

-----------------------------------------------------------------------------
(* src/gtc.py: _parse_llm_response on a text *)

\* lines 255-257
clean_response_text(text) ==
    EscapeBackslashes(Strip(Remove(Remove(text, S_fence_json), S_fence)))

\* what came out of a call of _parse_llm_response: it raised, or a value
Outcome(raised, value) == [raised |-> raised, value |-> value]

\* lines 253-277
parse_llm_response_text(text, data_type) ==
    Outcome(FALSE, parse_llm_response(JsonLoads(clean_response_text(text)), data_type))

-----------------------------------------------------------------------------
(* src/gtcUpdated.py: _validate_test_case and _parse_llm_response *)

\* lines 94-109
upd_validate_string_format(test_case) ==
    IF test_case.input.t = "null" THEN Ok
    ELSE IF ~IsInstanceStr(test_case.input)
         THEN IF PyEq(test_case.expected_result, JStr(S_Pass))
              THEN Rejected("Input is not a string, but expected result is 'Pass'.")
              ELSE Ok
    ELSE Ok

\* lines 48-62
upd_field_specific_rules == {"Date", "String"}

upd_extra_validation(data_type, test_case) ==
    IF data_type = "Date" THEN upd_validate_date_format(test_case)
    ELSE upd_validate_string_format(test_case)

\* lines 173-206
upd_validate_test_case(test_case, data_type) ==
    LET inp == test_case.input
        pass == PyEq(test_case.expected_result, JStr(S_Pass))
    IN
    IF ~(RequiredFields \subseteq test_case.keys)
    THEN Rejected("Missing required keys")
    ELSE IF ~PyIn(test_case.expected_result, <<JStr(S_Pass), JStr(S_Fail)>>)
    THEN Rejected("Invalid expected_result value")
    ELSE IF /\ data_type \in upd_field_specific_rules
            /\ ~upd_extra_validation(data_type, test_case).ok
    THEN upd_extra_validation(data_type, test_case)
    ELSE IF data_type = "String" /\ inp.t \notin {"str", "null"} /\ pass
    THEN Rejected("Input is not a string or null, but expected result is 'Pass'.")
    ELSE IF data_type = "Integer" /\ ~IsInstanceInt(inp) /\ inp.t # "null" /\ pass
    THEN Rejected("Input is not an integer or null, but expected result is 'Pass'.")
    ELSE IF data_type = "Number" /\ ~IsNumber(inp) /\ inp.t # "null" /\ pass
    THEN Rejected("Input is not a number or null, but expected result is 'Pass'.")
    ELSE Ok

\* re.sub(r'^```json\s*', '', text, flags=re.IGNORECASE), line 213
upd_strip_opening_fence(text) ==
    IF LitAtNoCase(text, 1, S_fence_json)
    THEN From(text, SkipWs(text, Len(S_fence_json) + 1))
    ELSE text

\* re.sub(r'\s*```$', '', text), line 214: $ is the end of the text, or the
\* place before a newline that ends the text
upd_strip_closing_fence(text) ==
    LET n == Len(text)
        e == IF LitAt(text, n - 2, S_fence) THEN n
             ELSE IF n >= 1 /\ text[n] = Ch("\n") /\ LitAt(text, n - 3, S_fence)
                  THEN n - 1
                  ELSE 0
    IN IF e = 0 THEN text
       ELSE SubSeq(text, 1, SkipWsBack(text, e - 3)) \o From(text, e + 1)

\* re.sub(r',\s*(\}|\])', r'\1', text), line 219
RECURSIVE upd_remove_trailing_commas(_)
upd_remove_trailing_commas(text) ==
    IF text = <<>> THEN <<>>
    ELSE LET j == SkipWs(text, 2)
         IN IF /\ Head(text) = Ch(",")
               /\ j <= Len(text)
               /\ text[j] \in {Ch("}"), Ch("]")}
            THEN upd_remove_trailing_commas(From(text, j))
            ELSE <<Head(text)>> \o upd_remove_trailing_commas(Tail(text))

\* re.sub(r'\bword\b', repl, text, flags=re.IGNORECASE) from position i on;
\* word is lower-case
RECURSIVE ReplaceWord(_, _, _, _)
ReplaceWord(text, i, word, repl) ==
    IF i > Len(text) THEN <<>>
    ELSE IF /\ LitAtNoCase(text, i, word)
            /\ (i = 1 \/ ~IsWordCh(text[i - 1]))
            /\ (i + Len(word) > Len(text) \/ ~IsWordCh(text[i + Len(word)]))
         THEN Chars(repl) \o ReplaceWord(text, i + Len(word), word, repl)
         ELSE <<text[i]>> \o ReplaceWord(text, i + 1, word, repl)

\* lines 228-230
upd_replace_python_literals(text) ==
    ReplaceWord(ReplaceWord(ReplaceWord(text, 1, S_none, S_null),
                            1, S_true, S_true),
                1, S_false, S_false)

\* lines 219-230 on the characters between the quotes of one string of a
\* record: the quotes are no word characters and no white space, so the
\* substitutions see the string as they would see a text of its own
upd_repair_string(chars) ==
    LET repaired == upd_replace_python_literals(
                        upd_remove_trailing_commas(Chars(chars)))
    IN [i \in 1..Len(repaired) |-> repaired[i].c]

upd_repair_value(v) == IF v.t = "str" THEN JStr(upd_repair_string(v.s)) ELSE v

\* lines 219-230 on the text of one record: its keys and the literals null,
\* true and false stay as they are
upd_repair_record(case) ==
    [case EXCEPT !.test_case = upd_repair_value(@),
                 !.description = upd_repair_value(@),
                 !.expected_result = upd_repair_value(@),
                 !.input = upd_repair_value(@)]

\* lines 213-230
upd_clean_response_text(text) ==
    LET cleaned == upd_replace_python_literals(
                       upd_remove_trailing_commas(
                           Strip(upd_strip_closing_fence(
                                     upd_strip_opening_fence(text)))))
    IN [i \in 1..Len(cleaned) |->
           IF cleaned[i].k = "obj"
           THEN Obj(upd_repair_record(cleaned[i].case))
           ELSE cleaned[i]]

\* lines 263-267
upd_normalize_expected_result(case) ==
    IF "expected_result" \in case.keys /\ IsInstanceStr(case.expected_result)
    THEN IF Lower(case.expected_result.s) = S_pass
         THEN [case EXCEPT !.expected_result = JStr(S_Pass)]
         ELSE IF Lower(case.expected_result.s) = S_fail
              THEN [case EXCEPT !.expected_result = JStr(S_Fail)]
              ELSE case
    ELSE case

\* the loop of lines 256-281 ending at the first element that is no dict
RECURSIVE upd_validated_cases_until_non_record(_, _)
upd_validated_cases_until_non_record(items, data_type) ==
    IF items = <<>> THEN <<>>
    ELSE IF Head(items).kind # "dict" THEN <<>>
    ELSE LET rest == upd_validated_cases_until_non_record(Tail(items), data_type)
             case == upd_normalize_expected_result(Head(items).case)
         IN IF upd_validate_test_case(case, data_type).ok
            THEN <<case>> \o rest
            ELSE rest

\* lines 256-281: an element that is no dict is skipped
RECURSIVE upd_validated_cases(_, _)
upd_validated_cases(items, data_type) ==
    IF items = <<>> THEN <<>>
    ELSE LET rest == upd_validated_cases(Tail(items), data_type)
             case == upd_normalize_expected_result(Head(items).case)
         IN IF /\ Head(items).kind = "dict"
               /\ upd_validate_test_case(case, data_type).ok
            THEN <<case>> \o rest
            ELSE rest

\* upd_parse_loaded without the unwrapping of lines 244-248
upd_parse_loaded_no_unwrap(response, data_type) ==
    IF response.text = "malformed" THEN Outcome(TRUE, None)
    ELSE IF response.text # "array" THEN Outcome(FALSE, None)
    ELSE LET cases == upd_validated_cases(response.items, data_type)
         IN Outcome(FALSE, IF cases = <<>> THEN None ELSE List(cases))

\* lines 238-301, from the value json.loads made.  The handler of
\* JSONDecodeError reads e.message, which the exception does not have: the
\* AttributeError leaves _parse_llm_response.  An object with one key whose
\* value is a list stands for that list; any other value that is no list
\* raises ValueError, which is caught.
upd_parse_loaded(response, data_type) ==
    IF response.text = "malformed" THEN Outcome(TRUE, None)
    ELSE LET unwraps == /\ response.text = "object"
                        /\ Len(response.items) = 1
                        /\ response.items[1].kind = "list"
             test_cases == IF unwraps THEN response.items[1].items
                           ELSE response.items
         IN IF response.text # "array" /\ ~unwraps THEN Outcome(FALSE, None)
            ELSE LET cases == upd_validated_cases(test_cases, data_type)
                 IN Outcome(FALSE, IF cases = <<>> THEN None ELSE List(cases))

\* lines 209-301
upd_parse_llm_response_text(text, data_type) ==
    LET cleaned == upd_clean_response_text(text)
    IN IF cleaned = <<>> THEN Outcome(FALSE, None)
       ELSE upd_parse_loaded(JsonLoads(cleaned), data_type)

-----------------------------------------------------------------------------
(* src/generated_test_cases.py: _parse_llm_response on a text *)

\* [a-zA-Z] of the regular expressions
IsLetter(p) == IsWordCh(p) /\ p.c \notin Digits \cup {"_"}

RECURSIVE SkipLetters(_, _)
SkipLetters(text, i) ==
    IF i <= Len(text) /\ IsLetter(text[i]) THEN SkipLetters(text, i + 1) ELSE i

\* re.sub(r'^```[a-zA-Z]*\s*', '', text, flags=re.MULTILINE), line 165,
\* from i on: ^ is the start of the text or the place after a newline
RECURSIVE gen_strip_opening_fences(_, _)
gen_strip_opening_fences(text, i) ==
    IF i > Len(text) THEN <<>>
    ELSE IF LitAt(text, i, S_fence) /\ (i = 1 \/ text[i - 1] = Ch("\n"))
         THEN gen_strip_opening_fences(text, SkipWs(text, SkipLetters(text, i + 3)))
         ELSE <<text[i]>> \o gen_strip_opening_fences(text, i + 1)

\* the last newline of text[lo..hi], or 0
RECURSIVE LastNewline(_, _, _)
LastNewline(text, lo, hi) ==
    IF hi < lo THEN 0
    ELSE IF text[hi] = Ch("\n") THEN hi
    ELSE LastNewline(text, lo, hi - 1)

\* re.sub(r'```\s*$', '', text, flags=re.MULTILINE), line 166, from i on:
\* $ is the end of the text or the place before a newline, and \s* takes
\* as much white space as leaves it at such a place
RECURSIVE gen_strip_closing_fences(_, _)
gen_strip_closing_fences(text, i) ==
    IF i > Len(text) THEN <<>>
    ELSE LET e == SkipWs(text, i + 3)
             stop == IF ~LitAt(text, i, S_fence) THEN 0
                     ELSE IF e > Len(text) THEN e
                     ELSE LastNewline(text, i + 3, e - 1)
         IN IF stop = 0
            THEN <<text[i]>> \o gen_strip_closing_fences(text, i + 1)
            ELSE gen_strip_closing_fences(text, stop)

RECURSIVE FirstIndex(_, _, _)
FirstIndex(text, piece, i) ==
    IF i > Len(text) THEN 0
    ELSE IF text[i] = piece THEN i
    ELSE FirstIndex(text, piece, i + 1)

RECURSIVE LastIndex(_, _, _)
LastIndex(text, piece, i) ==
    IF i < 1 THEN 0
    ELSE IF text[i] = piece THEN i
    ELSE LastIndex(text, piece, i - 1)

\* lines 168-170 without the search: the cleaned text is parsed as it is
gen_search_array_span_none(text) == text

\* re.search(r'\[.*\]', text, re.DOTALL), lines 168-170: the span from the
\* first "[" to the last "]" after it, or the text where there is none
gen_search_array_span(text) ==
    LET first == FirstIndex(text, Ch("["), 1)
        last == LastIndex(text, Ch("]"), Len(text))
    IN IF first # 0 /\ last > first THEN SubSeq(text, first, last) ELSE text

\* lines 164-170
gen_clean_response_text(text) ==
    gen_search_array_span(
        Strip(gen_strip_closing_fences(
                  gen_strip_opening_fences(Strip(text), 1), 1)))

\* lines 178-187
RECURSIVE gen_validated_cases(_, _)
gen_validated_cases(items, data_type) ==
    IF items = <<>> THEN <<>>
    ELSE LET rest == gen_validated_cases(Tail(items), data_type)
         IN IF /\ Head(items).kind = "dict"
               /\ gen_validate_test_case(Head(items).case, data_type).ok
            THEN <<normalize_expected_result(Head(items).case)>> \o rest
            ELSE rest

\* lines 172-196, from the value json.loads made: JSONDecodeError, the
\* ValueError for a value that is no list and the TypeError of
\* `field in test_case` for an element that is null, a number or a boolean
\* are all caught and None is returned
gen_parse_loaded(response, data_type) ==
    IF response.text # "array" THEN Outcome(FALSE, None)
    ELSE IF \E i \in 1..Len(response.items) : RaisesTypeError(response.items[i])
         THEN Outcome(FALSE, None)
    ELSE Outcome(FALSE, List(gen_validated_cases(response.items, data_type)))

\* lines 160-196
gen_parse_llm_response_text(text, data_type) ==
    gen_parse_loaded(JsonLoads(gen_clean_response_text(text)), data_type)

-----------------------------------------------------------------------------
(* The rules file.  A name is the sequence of its dot-separated segments,  *)
(* so that f"{parent_field}.{field_name}" is the concatenation of two      *)
(* names: "s" + "." + "a.b" and "s.a" + "." + "b" are the same key.        *)

Field(parent_field, field_name, data_type) ==
    [parent_field |-> parent_field, field_name |-> field_name, data_type |-> data_type]

FieldPool ==
    {Field(<<"s">>, <<"a", "b">>, "Boolean"),
     Field(<<"s", "a">>, <<"b">>, "Date"),
     Field(<<"s">>, <<"c">>, "String"),
     Field(<<"t">>, <<"d">>, "Long")}

\* rules.items() / details["fields"].items(): the fields of one parent are
\* visited together, and a dict holds a (parent, field) pair once
IterationOrder(fs) ==
    /\ \A i, j \in 1..Len(fs) : i # j => fs[i] # fs[j]
    /\ \A i, j, k \in 1..Len(fs) :
          (i < j /\ j < k /\ fs[i].parent_field = fs[k].parent_field)
              => fs[j].parent_field = fs[i].parent_field

RECURSIVE SeqsUpTo(_, _)
SeqsUpTo(S, n) ==
    IF n = 0 THEN {<<>>}
    ELSE LET shorter == SeqsUpTo(S, n - 1)
         IN shorter \cup {Append(q, x) : q \in shorter, x \in S}

RulesPool == {fs \in SeqsUpTo(FieldPool, MaxFields) : IterationOrder(fs)}

Readable(fs) == [readable |-> TRUE, fields |-> fs]
Unreadable == [readable |-> FALSE, fields |-> <<>>]

full_field_name(f) == f.parent_field \o f.field_name

-----------------------------------------------------------------------------
(* src/gtc.py: generate_test_cases *)

EmptyMapping == [k \in {} |-> <<>>]

\* what _save_test_cases was called with: the mapping, and its keys in order
NotSaved == [written |-> FALSE, keys |-> <<>>, mapping |-> EmptyMapping]
Saved(order, mapping) == [written |-> TRUE, keys |-> order, mapping |-> mapping]

\* all_test_cases[key] = value
Store(mapping, key, value) ==
    [k \in DOMAIN mapping \cup {key} |-> IF k = key THEN value ELSE mapping[k]]

\* Inserted for a mapping that puts a new key in front of the others
Inserted_front(order, mapping, key) ==
    IF key \in DOMAIN mapping THEN order ELSE <<key>> \o order

\* the keys of a dict keep the order of their first insertion
Inserted(order, mapping, key) ==
    IF key \in DOMAIN mapping THEN order ELSE Append(order, key)

ParserIdle ==
    /\ ptext = <<>> /\ ptype = "String" /\ papplied = "none"
    /\ pout = Outcome(FALSE, None)

ExtractorIdle ==
    /\ xrows = <<>> /\ xapplied = "none" /\ xout = <<>>

OrchestratorIdle ==
    /\ pc = "idle" /\ rules_file = Unreadable /\ rules = <<>>
    /\ max_retries = 0 /\ field_index = 0 /\ attempt = 0
    /\ generated_cases_for_field = None /\ all_test_cases = EmptyMapping
    /\ key_order = <<>> /\ processed_fields_count = 0
    /\ saved = NotSaved /\ calls = <<>> /\ history = <<>> /\ last_response = R_none
    /\ skipped = {}

ValidatorIdle ==
    /\ vcase = NoCase /\ vtype = "String" /\ vapplied = "none" /\ vout = Ok

\* the state when generate_test_cases is entered
Init ==
    /\ pc = "start"
    /\ rules_file \in {Readable(fs) : fs \in RulesPool} \cup {Unreadable}
    /\ rules = <<>>
    /\ max_retries \in 0..MaxRetries
    /\ field_index = 0 /\ attempt = 0
    /\ generated_cases_for_field = None
    /\ all_test_cases = EmptyMapping /\ key_order = <<>>
    /\ processed_fields_count = 0
    /\ saved = NotSaved
    /\ calls = <<>> /\ history = <<>> /\ last_response = R_none
    /\ skipped = {}
    /\ ValidatorIdle /\ ParserIdle /\ ExtractorIdle

\* lines 281-287: open and load the rules; a failure is re-raised (371-373)
ReadRules ==
    /\ pc = "start"
    /\ IF rules_file.readable
       THEN /\ rules' = rules_file.fields
            /\ calls' = [i \in 1..Len(rules_file.fields) |-> 0]
            /\ history' = [i \in 1..Len(rules_file.fields) |-> <<>>]
            /\ pc' = "next_field"
       ELSE /\ pc' = "raised"
            /\ UNCHANGED <<rules, calls, history>>
    /\ UNCHANGED <<rules_file, max_retries, field_index, attempt,
                   generated_cases_for_field, all_test_cases, key_order,
                   processed_fields_count, saved, last_response, skipped,
                   validator_vars, parser_vars, extractor_vars>>

\* lines 305-332: the next field of the iteration; a key already stored is
\* skipped, otherwise the retry loop is entered
BeginField ==
    /\ pc = "next_field"
    /\ field_index < Len(rules)
    /\ field_index' = field_index + 1
    /\ IF full_field_name(rules[field_index + 1]) \in DOMAIN all_test_cases
       THEN /\ processed_fields_count' = processed_fields_count + 1
            /\ skipped' = skipped \cup {field_index + 1}
            /\ pc' = "next_field"
            /\ UNCHANGED <<attempt, generated_cases_for_field>>
       ELSE /\ attempt' = 0
            /\ generated_cases_for_field' = None
            /\ pc' = "attempt"
            /\ UNCHANGED <<processed_fields_count, skipped>>
    /\ UNCHANGED <<rules_file, rules, max_retries, all_test_cases, key_order,
                   saved, calls, history, last_response, validator_vars, parser_vars, extractor_vars>>

\* AttemptBody where a malformed response does not use up an attempt
AttemptBody_malformed_uncounted(key, data_type, returned) ==
    LET parsed == IF returned.response.text \notin {"none", "empty"}
                  THEN parse_llm_response(returned.response, data_type)
                  ELSE generated_cases_for_field
    IN /\ generated_cases_for_field' = parsed
       /\ history' = [history EXCEPT ![field_index] =
                          Append(@, IF Truthy(parsed) THEN parsed.cases ELSE <<>>)]
       /\ IF Truthy(parsed)
          THEN /\ all_test_cases' = Store(all_test_cases, key, parsed.cases)
               /\ key_order' = Inserted(key_order, all_test_cases, key)
               /\ pc' = "break"
               /\ UNCHANGED attempt
          ELSE /\ IF attempt = max_retries - 1
                  THEN /\ all_test_cases' = Store(all_test_cases, key, <<>>)
                       /\ key_order' = Inserted(key_order, all_test_cases, key)
                  ELSE UNCHANGED <<all_test_cases, key_order>>
               /\ attempt' = IF returned.response.text = "malformed"
                              THEN attempt ELSE attempt + 1
               /\ pc' = "attempt"

\* AttemptBody without the break after a success
AttemptBody_no_break(key, data_type, returned) ==
    LET parsed == IF returned.response.text \notin {"none", "empty"}
                  THEN parse_llm_response(returned.response, data_type)
                  ELSE generated_cases_for_field
    IN /\ generated_cases_for_field' = parsed
       /\ history' = [history EXCEPT ![field_index] =
                          Append(@, IF Truthy(parsed) THEN parsed.cases ELSE <<>>)]
       /\ IF Truthy(parsed)
          THEN /\ all_test_cases' = Store(all_test_cases, key, parsed.cases)
               /\ key_order' = Inserted(key_order, all_test_cases, key)
               /\ pc' = "attempt"
               /\ attempt' = attempt + 1
          ELSE /\ IF attempt = max_retries - 1
                  THEN /\ all_test_cases' = Store(all_test_cases, key, <<>>)
                       /\ key_order' = Inserted(key_order, all_test_cases, key)
                  ELSE UNCHANGED <<all_test_cases, key_order>>
               /\ attempt' = attempt + 1
               /\ pc' = "attempt"

\* lines 340-354: what one attempt does with the text the call returned
AttemptBody(key, data_type, returned) ==
    LET parsed == IF returned.response.text \notin {"none", "empty"}
                  THEN parse_llm_response(returned.response, data_type)
                  ELSE generated_cases_for_field
    IN /\ generated_cases_for_field' = parsed
       /\ history' = [history EXCEPT ![field_index] =
                          Append(@, IF Truthy(parsed) THEN parsed.cases ELSE <<>>)]
       /\ IF Truthy(parsed)
          THEN /\ all_test_cases' = Store(all_test_cases, key, parsed.cases)
               /\ key_order' = Inserted(key_order, all_test_cases, key)
               /\ pc' = "break"
               /\ UNCHANGED attempt
          ELSE /\ IF attempt = max_retries - 1
                  THEN /\ all_test_cases' = Store(all_test_cases, key, <<>>)
                       /\ key_order' = Inserted(key_order, all_test_cases, key)
                  ELSE UNCHANGED <<all_test_cases, key_order>>
               /\ attempt' = attempt + 1
               /\ pc' = "attempt"

\* lines 356-360: an exception inside the attempt
AttemptExcept(key) ==
    /\ IF attempt = max_retries - 1
       THEN /\ all_test_cases' = Store(all_test_cases, key, <<>>)
            /\ key_order' = Inserted(key_order, all_test_cases, key)
       ELSE UNCHANGED <<all_test_cases, key_order>>
    /\ history' = [history EXCEPT ![field_index] = Append(@, <<>>)]
    /\ attempt' = attempt + 1
    /\ pc' = "attempt"
    /\ UNCHANGED generated_cases_for_field

\* Attempt where the call is made for any field of the rules (a pool of
\* pending fields) and charged to that field
Attempt_any_field ==
    /\ pc = "attempt"
    /\ attempt < max_retries
    /\ \E response \in Responses, f \in 1..Len(rules) :
          LET returned == generate_test_cases_with_llm(response)
              key == full_field_name(rules[field_index])
          IN /\ last_response' = response
             /\ calls' = [calls EXCEPT ![f] = @ + 1]
             /\ IF returned.raised
                THEN AttemptExcept(key)
                ELSE AttemptBody(key, rules[field_index].data_type, returned)
    /\ UNCHANGED <<rules_file, rules, max_retries, field_index,
                   processed_fields_count, saved, skipped, validator_vars,
                   parser_vars, extractor_vars>>

\* lines 333-360: one iteration of `for attempt in range(max_retries)`
Attempt ==
    /\ pc = "attempt"
    /\ attempt < max_retries
    /\ \E response \in Responses :
          LET returned == generate_test_cases_with_llm(response)
              key == full_field_name(rules[field_index])
          IN /\ last_response' = response
             /\ calls' = [calls EXCEPT ![field_index] = @ + 1]
             /\ IF returned.raised
                THEN AttemptExcept(key)
                ELSE AttemptBody(key, rules[field_index].data_type, returned)
    /\ UNCHANGED <<rules_file, rules, max_retries, field_index,
                   processed_fields_count, saved, skipped, validator_vars, parser_vars, extractor_vars>>

\* line 362, after the loop has ended (range exhausted, or break)
EndField ==
    /\ \/ pc = "break"
       \/ pc = "attempt" /\ attempt >= max_retries
    /\ processed_fields_count' = processed_fields_count + 1
    /\ pc' = "next_field"
    /\ UNCHANGED <<rules_file, rules, max_retries, field_index, attempt,
                   generated_cases_for_field, all_test_cases, key_order, saved,
                   calls, history, last_response, skipped, validator_vars, parser_vars, extractor_vars>>

\* lines 364-368: the result mapping is handed to persistence
Save ==
    /\ pc = "next_field"
    /\ field_index = Len(rules)
    /\ saved' = Saved(key_order, all_test_cases)
    /\ pc' = "done"
    /\ UNCHANGED <<rules_file, rules, max_retries, field_index, attempt,
                   generated_cases_for_field, all_test_cases, key_order,
                   processed_fields_count, calls, history, last_response,
                   skipped, validator_vars, parser_vars, extractor_vars>>

Next == ReadRules \/ BeginField \/ Attempt \/ EndField \/ Save

Spec == Init /\ [][Next]_vars

\* the loop runs on its own: no step waits for anything but the model call
FairSpec == Spec /\ WF_vars(Next)

-----------------------------------------------------------------------------
(* One validator applied to one test case *)

InitValidate ==
    /\ OrchestratorIdle /\ ParserIdle /\ ExtractorIdle
    /\ vcase \in CasePool
    /\ vtype \in DataTypes
    /\ vapplied = "none"
    /\ vout = Ok

\* src/gtc.py _validate_test_case
ValidateTestCase ==
    /\ vapplied = "none"
    /\ vout' = validate_test_case(vcase, vtype)
    /\ vapplied' = "gtc"
    /\ UNCHANGED <<vcase, vtype, orchestrator_vars, parser_vars, extractor_vars>>

\* src/generated_test_cases.py _validate_long_format, as dispatched for "Long"
\* after the structural checks
ValidateLongFormat ==
    /\ vapplied = "none"
    /\ vtype = "Long"
    /\ StructurallyValid(vcase)
    /\ vout' = gen_validate_long_format(vcase)
    /\ vapplied' = "gen_long"
    /\ UNCHANGED <<vcase, vtype, orchestrator_vars, parser_vars, extractor_vars>>

\* src/gtcUpdated.py _validate_date_format, as dispatched for "Date" after the
\* structural checks
ValidateDateFormatUpdated ==
    /\ vapplied = "none"
    /\ vtype = "Date"
    /\ StructurallyValid(vcase)
    /\ vout' = upd_validate_date_format(vcase)
    /\ vapplied' = "upd_date"
    /\ UNCHANGED <<vcase, vtype, orchestrator_vars, parser_vars, extractor_vars>>

\* src/generated_test_cases.py _validate_test_case
ValidateTestCaseGenerated ==
    /\ vapplied = "none"
    /\ vout' = gen_validate_test_case(vcase, vtype)
    /\ vapplied' = "gen"
    /\ UNCHANGED <<vcase, vtype, orchestrator_vars, parser_vars, extractor_vars>>

NextValidate ==
    \/ ValidateTestCase \/ ValidateLongFormat \/ ValidateDateFormatUpdated
    \/ ValidateTestCaseGenerated

SpecValidate == InitValidate /\ [][NextValidate]_vars

-----------------------------------------------------------------------------
(* _parse_llm_response applied to one response text *)

MaxItems == 2

\* the records the sample arrays are made of
ItemPool == {C_pass_iso, C_pass_true, C_upper, C_fail_one, C_nokey}

\* the elements of an array, separated by ", "
RECURSIVE Joined(_)
Joined(cases) ==
    IF cases = <<>> THEN <<>>
    ELSE IF Len(cases) = 1 THEN <<Obj(cases[1])>>
    ELSE <<Obj(Head(cases)), Ch(","), Ch(" ")>> \o Joined(Tail(cases))

\* "[" elements, what stands before the closing bracket, "]"
ArrayText(cases, before_close) ==
    <<Ch("[")>> \o Joined(cases) \o before_close \o <<Ch("]")>>

Openings ==
    {<<>>,
     Chars(<<Backtick, Backtick, Backtick,"j","s","o","n","\n">>),
     Chars(<<Backtick, Backtick, Backtick,"J","S","O","N","\n">>),
     Chars(<<Backtick, Backtick, Backtick,"\n">>),
     Chars(<<Backtick, Backtick, Backtick,"p","y","t","h","o","n","\n">>)}

Closings ==
    {<<>>, Chars(<<"\n",Backtick, Backtick, Backtick>>), Chars(<<"\n",Backtick, Backtick, Backtick,"\n">>)}

BeforeClose == {<<>>, <<Ch(",")>>, <<Ch(","), Ch("\n")>>}

ArrayPool == SeqsUpTo(ItemPool, MaxItems)

\* the object {"key": value}
Wrapped(key, value) ==
    <<Ch("{"), Ch("\"")>> \o Chars(key) \o <<Ch("\""), Ch(":"), Ch(" ")>>
        \o value \o <<Ch("}")>>

\* the object {"a": first, "key": second}
TwoKeys(first, key, second) ==
    <<Ch("{"), Ch("\""), Ch("a"), Ch("\""), Ch(":"), Ch(" ")>> \o first
        \o <<Ch(","), Ch(" "), Ch("\"")>> \o Chars(key)
        \o <<Ch("\""), Ch(":"), Ch(" ")>> \o second \o <<Ch("}")>>

S_cases == <<"c","a","s","e","s">>

\* texts whose top-level value is an object written out, or a number
ObjectTexts ==
    {Wrapped(S_cases, ArrayText(<<C_pass_true, C_fail_one>>, <<>>)),
     Wrapped(S_cases, ArrayText(<<C_upper, C_nokey>>, <<>>)),
     Wrapped(S_cases, <<Ch("[")>> \o Chars(S_null)
                          \o <<Ch(","), Obj(C_pass_true), Ch("]")>>),
     Wrapped(S_cases, ArrayText(<<>>, <<>>)),
     Chars(<<Backtick, Backtick, Backtick,"j","s","o","n","\n">>)
         \o Wrapped(S_cases, ArrayText(<<C_pass_iso>>, <<>>))
         \o Chars(<<"\n", Backtick, Backtick, Backtick>>),
     Wrapped(S_cases, <<Obj(C_pass_true)>>),
     Wrapped(S_cases, <<Ch("7")>>),
     Wrapped(S_cases, Chars(S_null)),
     Wrapped(S_cases, ArrayText(<<C_pass_true>>, <<>>) \o <<Ch(",")>>),
     TwoKeys(ArrayText(<<C_pass_true>>, <<>>), S_cases, ArrayText(<<C_fail_one>>, <<>>)),
     TwoKeys(<<Ch("1")>>, S_cases, ArrayText(<<C_fail_one>>, <<>>)),
     TwoKeys(<<Ch("1")>>, <<"a">>, ArrayText(<<C_pass_true>>, <<>>)),
     <<Ch("{"), Ch("}")>>,
     <<Ch("7")>>,
     <<Ch("\""), Ch("x"), Ch("\"")>>}

\* what a model writes before and after the array
ProseBefore ==
    {<<>>,
     Chars(<<"O","K",":"," ">>),
     Chars(<<"H","e","r","e",":","\n", Backtick, Backtick, Backtick,
             "j","s","o","n","\n">>)}

ProseAfter ==
    {<<>>,
     Chars(<<" ","D","o","n","e",".">>),
     Chars(<<"\n", Backtick, Backtick, Backtick, "\n","D","o","n","e",".">>)}

\* the arrays that stand in prose
ProseArrays ==
    {<<>>, <<C_pass_iso>>, <<C_fail_one>>, <<C_pass_iso, C_fail_one>>,
     <<C_upper, C_pass_true>>, <<C_nokey, C_fail_one>>}

\* an array of records with prose around it, and one with prose that holds
\* brackets
ProseTexts ==
    {b \o ArrayText(a, <<>>) \o c :
        b \in ProseBefore, a \in ProseArrays, c \in ProseAfter}
    \cup {Chars(<<"s","e","e"," ","[","1","]",":"," ">>)
              \o ArrayText(<<C_pass_iso>>, <<>>)}

\* records whose strings hold what the substitutions look for
S_None == <<"N","o","n","e">>
S_comma_bracket == <<"a", ",", " ", "]">>
S_nonesuch == <<"N","o","n","e","s","u","c","h">>

C_input_True == Case(RequiredFields, JStr(S_Pass), JStr(S_True))
C_described_None == Described(C_pass_true, S_None)
C_described_comma == Described(C_fail_one, S_comma_bracket)
C_described_nonesuch == Described(C_pass_true, S_nonesuch)

StringItems ==
    {C_input_True, C_described_None, C_described_comma, C_described_nonesuch}

StringTexts ==
    {o \o ArrayText(<<c>>, <<>>) \o cl :
        o \in {<<>>, Chars(<<Backtick, Backtick, Backtick,"j","s","o","n","\n">>)},
        c \in StringItems,
        cl \in {<<>>, Chars(<<"\n",Backtick, Backtick, Backtick>>)}}
    \cup {ArrayText(<<C_pass_iso, C_input_True>>, <<>>)}

\* texts that are no array of records
OtherTexts ==
    {<<>>,
     <<Ch(" ")>>,
     <<Obj(C_pass_iso)>>,
     Chars(S_null),
     Chars(<<"N","o","n","e">>),
     <<Ch("["), Obj(C_pass_iso)>>,
     <<Ch("[")>> \o Chars(S_null) \o <<Ch(","), Obj(C_pass_true), Ch("]")>>,
     <<Ch("["), Ch("\""), Ch("x"), Ch("\""), Ch(","), Obj(C_fail_one), Ch("]")>>,
     <<Ch("["), Ch("\""), Ch("\\"), Ch("d"), Ch("\""), Ch(","), Obj(C_fail_one), Ch("]")>>,
     <<Ch("["), Ch("["), Ch("1"), Ch("]"), Ch(","), Obj(C_pass_iso), Ch("]")>>,
     Chars(<<"O","K",":"," ">>) \o <<Ch("["), Obj(C_pass_iso), Ch("]")>>,
     <<Ch("["), Obj(C_pass_true), Ch(","), Ch("7"), Ch(","), Obj(C_fail_one), Ch("]")>>,
     <<Ch("[")>> \o Chars(S_true) \o <<Ch(","), Obj(C_upper), Ch("]")>>,
     <<Ch("[")>> \o Chars(S_null) \o <<Ch("]")>>}

TextPool ==
    {o \o ArrayText(a, b) \o c :
        o \in Openings, a \in ArrayPool, b \in BeforeClose, c \in Closings}
    \cup OtherTexts \cup ObjectTexts \cup ProseTexts \cup StringTexts

InitParse ==
    /\ OrchestratorIdle /\ ValidatorIdle /\ ExtractorIdle
    /\ ptext \in TextPool
    /\ ptype \in DataTypes
    /\ papplied = "none"
    /\ pout = Outcome(FALSE, None)

\* src/gtc.py _parse_llm_response
ParseLlmResponse ==
    /\ papplied = "none"
    /\ pout' = parse_llm_response_text(ptext, ptype)
    /\ papplied' = "gtc"
    /\ UNCHANGED <<ptext, ptype, orchestrator_vars, validator_vars, extractor_vars>>

\* src/gtcUpdated.py _parse_llm_response
ParseLlmResponseUpdated ==
    /\ papplied = "none"
    /\ pout' = upd_parse_llm_response_text(ptext, ptype)
    /\ papplied' = "upd"
    /\ UNCHANGED <<ptext, ptype, orchestrator_vars, validator_vars, extractor_vars>>

\* src/generated_test_cases.py _parse_llm_response
ParseLlmResponseGenerated ==
    /\ papplied = "none"
    /\ pout' = gen_parse_llm_response_text(ptext, ptype)
    /\ papplied' = "gen"
    /\ UNCHANGED <<ptext, ptype, orchestrator_vars, validator_vars, extractor_vars>>

NextParse ==
    ParseLlmResponse \/ ParseLlmResponseUpdated \/ ParseLlmResponseGenerated

SpecParse == InitParse /\ [][NextParse]_vars

-----------------------------------------------------------------------------
(* src/gtcUpdated.py: generate_test_cases.  The variables of the           *)
(* orchestrator hold the locals of this revision: generated_cases_for_field *)
(* is test_cases, processed_fields_count is processed_fields, and skipped   *)
(* holds the fields skipped at lines 342-346.                               *)

required_details == {"data_type", "mandatory_field", "primary_key"}

\* a field of the rules file with the keys its details hold
upd_Field(parent_field, field_name, data_type, present) ==
    [parent_field |-> parent_field, field_name |-> field_name,
     data_type |-> data_type, present |-> present]

upd_FieldPool ==
    {upd_Field(<<"s">>, <<"a", "b">>, "Boolean", required_details),
     upd_Field(<<"s", "a">>, <<"b">>, "String", required_details),
     upd_Field(<<"t">>, <<"d", "e">>, "String", required_details \ {"primary_key"}),
     upd_Field(<<"t", "d">>, <<"e">>, "Long", required_details),
     upd_Field(<<"u">>, <<"f">>, "", required_details \ {"data_type"})}

upd_RulesPool == {fs \in SeqsUpTo(upd_FieldPool, MaxFields) : IterationOrder(fs)}

upd_Responses ==
    {R_raise, R_none, R_empty, R_malformed, R_object, R_emptylist, R_maybe,
     R_iso_true, R_null_element, R_mixed}

upd_Init ==
    /\ pc = "start"
    /\ rules_file \in {Readable(fs) : fs \in upd_RulesPool} \cup {Unreadable}
    /\ rules = <<>>
    /\ max_retries \in 0..MaxRetries
    /\ field_index = 0 /\ attempt = 0
    /\ generated_cases_for_field = None
    /\ all_test_cases = EmptyMapping /\ key_order = <<>>
    /\ processed_fields_count = 0
    /\ saved = NotSaved
    /\ calls = <<>> /\ history = <<>> /\ last_response = R_none
    /\ skipped = {}
    /\ ValidatorIdle /\ ParserIdle /\ ExtractorIdle

\* lines 305-325: a rules file that cannot be read, or that holds no field,
\* ends the run with a plain return
upd_ReadRules ==
    /\ pc = "start"
    /\ IF rules_file.readable
       THEN /\ rules' = rules_file.fields
            /\ calls' = [i \in 1..Len(rules_file.fields) |-> 0]
            /\ history' = [i \in 1..Len(rules_file.fields) |-> <<>>]
            /\ pc' = IF Len(rules_file.fields) = 0 THEN "returned" ELSE "next_field"
       ELSE /\ pc' = "returned"
            /\ UNCHANGED <<rules, calls, history>>
    /\ UNCHANGED <<rules_file, max_retries, field_index, attempt,
                   generated_cases_for_field, all_test_cases, key_order,
                   processed_fields_count, saved, last_response, skipped,
                   validator_vars, parser_vars, extractor_vars>>

\* upd_BeginField without the check of lines 342-346
upd_BeginField_unchecked ==
    /\ pc = "next_field"
    /\ field_index < Len(rules)
    /\ field_index' = field_index + 1
    /\ processed_fields_count' = processed_fields_count + 1
    /\ attempt' = 0
    /\ generated_cases_for_field' = None
    /\ pc' = "attempt"
    /\ UNCHANGED <<rules_file, rules, max_retries, all_test_cases, key_order,
                   saved, calls, history, last_response, skipped,
                   validator_vars, parser_vars, extractor_vars>>

\* lines 332-359: the next field; one that lacks a required detail is
\* skipped, otherwise the retry loop is entered
upd_BeginField ==
    /\ pc = "next_field"
    /\ field_index < Len(rules)
    /\ field_index' = field_index + 1
    /\ processed_fields_count' = processed_fields_count + 1
    /\ IF ~(required_details \subseteq rules[field_index + 1].present)
       THEN /\ skipped' = skipped \cup {field_index + 1}
            /\ pc' = "next_field"
            /\ UNCHANGED <<attempt, generated_cases_for_field>>
       ELSE /\ attempt' = 0
            /\ generated_cases_for_field' = None
            /\ pc' = "attempt"
            /\ UNCHANGED skipped
    /\ UNCHANGED <<rules_file, rules, max_retries, all_test_cases, key_order,
                   saved, calls, history, last_response,
                   validator_vars, parser_vars, extractor_vars>>

\* lines 360-391: one iteration of the retry loop
upd_Attempt ==
    /\ pc = "attempt"
    /\ attempt < max_retries
    /\ \E response \in upd_Responses :
          LET returned == generate_test_cases_with_llm(response)
              key == full_field_name(rules[field_index])
              empty == returned.response.text \in {"none", "empty"}
              outcome == upd_parse_loaded(returned.response,
                                          rules[field_index].data_type)
              stored == ~empty /\ ~outcome.raised /\ Truthy(outcome.value)
          IN /\ last_response' = response
             /\ calls' = [calls EXCEPT ![field_index] = @ + 1]
             /\ generated_cases_for_field' =
                    IF empty \/ outcome.raised THEN generated_cases_for_field
                    ELSE outcome.value
             /\ history' = [history EXCEPT ![field_index] =
                               Append(@, IF stored THEN outcome.value.cases ELSE <<>>)]
             /\ IF stored
                THEN /\ all_test_cases' = Store(all_test_cases, key, outcome.value.cases)
                     /\ key_order' = Inserted(key_order, all_test_cases, key)
                     /\ pc' = "break"
                     /\ UNCHANGED attempt
                ELSE /\ attempt' = attempt + 1
                     /\ pc' = "attempt"
                     /\ UNCHANGED <<all_test_cases, key_order>>
    /\ UNCHANGED <<rules_file, rules, max_retries, field_index,
                   processed_fields_count, saved, skipped,
                   validator_vars, parser_vars, extractor_vars>>

\* the retry loop has ended (range exhausted, or break)
upd_EndField ==
    /\ \/ pc = "break"
       \/ pc = "attempt" /\ attempt >= max_retries
    /\ pc' = "next_field"
    /\ UNCHANGED <<rules_file, rules, max_retries, field_index, attempt,
                   generated_cases_for_field, all_test_cases, key_order, saved,
                   processed_fields_count, calls, history, last_response,
                   skipped, validator_vars, parser_vars, extractor_vars>>

\* lines 393-403: a result mapping that is not empty is handed to persistence
upd_Save ==
    /\ pc = "next_field"
    /\ field_index = Len(rules)
    /\ saved' = IF DOMAIN all_test_cases # {}
                THEN Saved(key_order, all_test_cases) ELSE saved
    /\ pc' = "done"
    /\ UNCHANGED <<rules_file, rules, max_retries, field_index, attempt,
                   generated_cases_for_field, all_test_cases, key_order,
                   processed_fields_count, calls, history, last_response,
                   skipped, validator_vars, parser_vars, extractor_vars>>

upd_Next == upd_ReadRules \/ upd_BeginField \/ upd_Attempt \/ upd_EndField \/ upd_Save

SpecUpdated == upd_Init /\ [][upd_Next]_vars

-----------------------------------------------------------------------------
(* Properties of generate_test_cases (src/gtc.py), checked under Spec *)

KeyOf(i) == full_field_name(rules[i])

\* the field's retry loop was entered (it was not skipped at line 310)
Entered(i) == i \in 1..field_index /\ i \notin skipped

\* the field's retry loop has ended
LoopEnded(i) ==
    /\ Entered(i)
    /\ \/ i < field_index
       \/ pc \in {"break", "next_field", "done"}
       \/ pc = "attempt" /\ attempt >= max_retries

\* no attempt of the field produced an accepted record
AllAttemptsFailed(i) == \A k \in 1..Len(history[i]) : history[i][k] = <<>>

\* what the pipeline accepts from a response for a field of this type
Accepted(response, data_type) ==
    LET returned == generate_test_cases_with_llm(response).response
    IN IF returned.text \in {"none", "empty"} THEN <<>>
       ELSE parse_llm_response(returned, data_type).cases

\* C1: for every configured maximum attempt count, a field whose attempts
\* have all failed has, once its retry loop has ended, its key in the result
\* mapping, mapped to an empty sequence.
C1_ExhaustedFieldStoredEmpty ==
    \A i \in 1..Len(rules) :
        (LoopEnded(i) /\ AllAttemptsFailed(i))
            => /\ KeyOf(i) \in DOMAIN all_test_cases
               /\ all_test_cases[KeyOf(i)] = <<>>

\* C2: the model calls made for a field never exceed the configured maximum
\* attempt count; each failed attempt, whatever its kind, is one call and
\* advances the attempt counter by one, so that a field whose attempts all
\* fail has received exactly max_retries calls when its loop ends.
C2_CallsBoundedByMaxRetries ==
    \A i \in 1..Len(rules) :
        /\ calls[i] <= max_retries
        /\ calls[i] = Len(history[i])
        /\ (i = field_index /\ pc = "attempt") => calls[i] = attempt
        /\ (LoopEnded(i) /\ AllAttemptsFailed(i)) => calls[i] = max_retries

C2_Witness ==
    /\ pc = "next_field" /\ field_index = 1 /\ LoopEnded(1)
    /\ max_retries >= 2 /\ calls[1] = max_retries /\ AllAttemptsFailed(1)
    /\ last_response = R_maybe /\ rules[1].data_type = "Boolean"

\* C3: the first attempt whose response validates to a non-empty sequence
\* ends the field: that sequence is what is stored under the field's key,
\* and no model call is made for the field afterwards.
C3_FirstSuccessStoredAndFinal ==
    /\ \A i \in 1..Len(rules) : \A k \in 1..Len(history[i]) :
          history[i][k] # <<>>
              => /\ k = Len(history[i])
                 /\ calls[i] = k
                 /\ KeyOf(i) \in DOMAIN all_test_cases
                 /\ all_test_cases[KeyOf(i)] = history[i][k]
                 /\ ~(i = field_index /\ pc = "attempt")
    /\ (pc = "break")
          => /\ Accepted(last_response, rules[field_index].data_type) # <<>>
             /\ all_test_cases[KeyOf(field_index)]
                    = Accepted(last_response, rules[field_index].data_type)
    /\ (pc = "attempt" /\ calls[field_index] > 0)
          => Accepted(last_response, rules[field_index].data_type) = <<>>

C3_Witness ==
    /\ pc = "done" /\ Len(rules) = 1 /\ rules[1].data_type = "Date"
    /\ calls[1] = 2 /\ max_retries = 3
    /\ history[1] = <<<<>>, <<C_pass_iso>>>>
    /\ saved.mapping[KeyOf(1)] = <<C_pass_iso>>

\* C4: for a Boolean field, the response whose only record is
\* {expected_result: "Pass", input: "maybe"} has the record discarded, the
\* attempt accepts nothing and fails, and while attempts remain the next
\* step is another model call for the same field.
C4_InvalidBooleanRetried ==
    (/\ pc \in {"attempt", "break"}
     /\ rules[field_index].data_type = "Boolean"
     /\ calls[field_index] > 0
     /\ last_response = R_maybe)
        => /\ pc = "attempt"
           /\ history[field_index][calls[field_index]] = <<>>
           /\ attempt = calls[field_index]
           /\ attempt < max_retries
                 => (ENABLED Attempt /\ ~ENABLED EndField /\ ~ENABLED BeginField
                     /\ ~ENABLED Save)

C4_Witness ==
    /\ pc = "attempt" /\ rules[field_index].data_type = "Boolean"
    /\ last_response = R_maybe /\ calls[field_index] = 1 /\ attempt = 1
    /\ max_retries = 3 /\ KeyOf(field_index) \notin DOMAIN all_test_cases

\* C5: once the rules are read the run reaches persistence whatever the
\* model does, and the result then holds an entry for every field of the
\* rules.
C5_EveryFieldHasEntryAtPersistence ==
    pc = "done" =>
        /\ saved.written
        /\ \A i \in 1..Len(rules) : KeyOf(i) \in DOMAIN saved.mapping

\* the run ends: the rules are unreadable and the error is raised, or the
\* result is handed to persistence
Termination == <>(pc \in {"done", "raised"})

\* the field whose attempts filled a key: the first field of that key
Producer(key) == CHOOSE i \in 1..Len(rules) :
                    /\ KeyOf(i) = key
                    /\ \A j \in 1..(i - 1) : KeyOf(j) # key

StoredRecordValid(record, data_type) ==
    /\ RequiredFields \subseteq record.keys
    /\ record.expected_result \in {JStr(S_Pass), JStr(S_Fail)}
    /\ validate_test_case(record, data_type).ok

MappingValid(mapping) ==
    \A key \in DOMAIN mapping : \A k \in 1..Len(mapping[key]) :
        StoredRecordValid(mapping[key][k], rules[Producer(key)].data_type)

\* C6: in every state of a run, every record stored in the result mapping
\* (and handed to persistence) has the four keys, has expected_result
\* exactly "Pass" or "Fail", and satisfies the validator of the declared
\* type of the field it was generated for.
C6_StoredRecordsValid ==
    /\ MappingValid(all_test_cases)
    /\ MappingValid(saved.mapping)

C6_Witness ==
    /\ pc = "done" /\ Len(rules) = 1 /\ rules[1].data_type = "Date"
    /\ last_response = R_iso_true
    /\ KeyOf(1) \in DOMAIN saved.mapping
    /\ saved.mapping[KeyOf(1)] = <<C_pass_iso>>

-----------------------------------------------------------------------------
(* Properties of the validators, checked under SpecValidate *)

NullInput(c) == "input" \in c.keys /\ c.input = JNull

\* C7: a structurally valid test case whose input is null passes the type
\* validation of every declared type (Date, String, Boolean, Long and the
\* types no validator is registered for), whatever its expected_result.
C7_NullInputAccepted ==
    (vapplied \in {"gtc", "gen_long"} /\ StructurallyValid(vcase) /\ NullInput(vcase))
        => vout.ok

C7_Witness ==
    /\ vapplied = "gtc" /\ vtype = "Boolean" /\ NullInput(vcase)
    /\ vcase.expected_result = JStr(S_Pass) /\ vout.ok

\* the closed set {true, false, "True", "False", "true", "false", 1, 0}
InBooleanDomain(v) ==
    \/ v.t = "bool"
    \/ v.t = "str" /\ v.s \in {S_True, S_False, S_true, S_false}
    \/ v.t \in {"int", "float"} /\ NumTenths(v) \in {0, 10}

\* C8: for a Boolean field a "Pass" test case whose input is non-null and
\* outside the closed set is rejected, and a "Fail" test case is accepted
\* whatever its input.
C8_BooleanDomain ==
    (vapplied = "gtc" /\ vtype = "Boolean" /\ StructurallyValid(vcase))
        => /\ (/\ vcase.expected_result = JStr(S_Pass)
               /\ vcase.input # JNull
               /\ ~InBooleanDomain(vcase.input)) => ~vout.ok
           /\ vcase.expected_result = JStr(S_Fail) => vout.ok

C8_Witness ==
    /\ vapplied = "gtc" /\ vtype = "Boolean" /\ StructurallyValid(vcase)
    /\ vcase.expected_result = JStr(S_Pass) /\ vcase.input = JStr(S_TRUE)
    /\ ~vout.ok

\* the string has the shape dddd-dd-dd
IsoShaped(s) ==
    /\ Len(s) = 10
    /\ \A k \in {1, 2, 3, 4, 6, 7, 9, 10} : s[k] \in Digits
    /\ s[5] = "-" /\ s[8] = "-"

\* the year, month and day written in such a string name a day of the calendar
NamesCalendarDay(s) ==
    LET y == IntOf(s, 1, 4)
        m == IntOf(s, 6, 7)
        d == IntOf(s, 9, 10)
    IN /\ y >= 1
       /\ m \in 1..12
       /\ d >= 1
       /\ d <= (IF m = 2 THEN (IF (y % 4 = 0 /\ y % 100 # 0) \/ y % 400 = 0 THEN 29 ELSE 28)
                ELSE IF m \in {4, 6, 9, 11} THEN 30 ELSE 31)

DateCase == vapplied = "gtc" /\ vtype = "Date" /\ StructurallyValid(vcase)

\* C9 (as stated): for a Date field a test case whose input is a string in
\* the format YYYY-MM-DD is accepted, whether expected_result is Pass or
\* Fail.
C9_IsoDateAccepted ==
    (DateCase /\ vcase.input.t = "str" /\ IsoShaped(vcase.input.s)) => vout.ok

\* C9 (amended): for a Date field a test case whose input is a string in
\* the format YYYY-MM-DD that names a day of the calendar is accepted,
\* whether expected_result is Pass or Fail.
C9_CalendarIsoDateAccepted ==
    (/\ DateCase /\ vcase.input.t = "str"
     /\ IsoShaped(vcase.input.s) /\ NamesCalendarDay(vcase.input.s)) => vout.ok

C9_Witness ==
    /\ DateCase /\ vcase.input = JStr(S_leap)
    /\ vcase.expected_result = JStr(S_Fail) /\ vout.ok

\* C10: for a Date field a "Fail" record is accepted whatever its non-null
\* input (a string matching no accepted format, or a value that is no
\* string); only a "Pass" record is rejected for a non-conforming input.
C10_FailDateTolerated ==
    (DateCase /\ vcase.input # JNull /\ vcase.expected_result = JStr(S_Fail))
        => vout.ok

-----------------------------------------------------------------------------
(* Properties of _parse_llm_response, checked under SpecParse *)

\* the array json.loads made of the cleaned text (src/gtc.py)
ParsedArray == JsonLoads(clean_response_text(ptext))

\* the record with the canonical token in place of a case variant of it
Canonical(case) ==
    IF case.expected_result.t = "str" /\ Lower(case.expected_result.s) = S_pass
    THEN [case EXCEPT !.expected_result = JStr(S_Pass)]
    ELSE IF case.expected_result.t = "str" /\ Lower(case.expected_result.s) = S_fail
         THEN [case EXCEPT !.expected_result = JStr(S_Fail)]
         ELSE case

\* C11: in gtc.py's _parse_llm_response, a record of a parsed array that is
\* valid but for the letter case of its expected_result ("PASS", "fail") is
\* accepted and returned with expected_result exactly "Pass" or "Fail", and
\* normalizing a returned record again leaves it unchanged.
C11_CaseInsensitiveAccepted ==
    (papplied = "gtc" /\ ParsedArray.text = "array"
       /\ \A i \in 1..Len(ParsedArray.items) : ~RaisesTypeError(ParsedArray.items[i]))
    => /\ ~pout.raised /\ ~pout.value.none
       /\ \A i \in 1..Len(ParsedArray.items) :
             LET el == ParsedArray.items[i]
             IN (/\ el.kind = "dict"
                 /\ "expected_result" \in el.case.keys
                 /\ validate_test_case(Canonical(el.case), ptype).ok)
                => \E j \in 1..Len(pout.value.cases) :
                       pout.value.cases[j] = Canonical(el.case)
       /\ \A j \in 1..Len(pout.value.cases) :
             /\ pout.value.cases[j].expected_result \in {JStr(S_Pass), JStr(S_Fail)}
             /\ normalize_expected_result(pout.value.cases[j]) = pout.value.cases[j]

\* a fence that opens a code block, with or without a language tag, and one
\* that closes it
FenceOpenings == Openings \ {<<>>}
FenceClosings == Closings \ {<<>>}

\* every record of the array is valid for the type as it stands
AllValidUpdated(cases, data_type) ==
    /\ cases # <<>>
    /\ \A i \in 1..Len(cases) : upd_validate_test_case(cases[i], data_type).ok

\* C12: in gtcUpdated.py's _parse_llm_response, an array of valid records in
\* a fenced code block (three grave accents, with or without a language
\* tag), with a single comma before the closing bracket, is parsed to
\* exactly the records of the array.
C12_FencedTrailingCommaParsed ==
    papplied = "upd" =>
        \A o \in FenceOpenings, a \in ArrayPool, c \in FenceClosings :
            (ptext = o \o ArrayText(a, <<Ch(",")>>) \o c /\ AllValidUpdated(a, ptype))
                => pout = Outcome(FALSE, List(a))

-----------------------------------------------------------------------------
(* Properties of generate_test_cases (src/gtcUpdated.py), checked under    *)
(* SpecUpdated                                                             *)

Incomplete(i) == ~(required_details \subseteq rules[i].present)

\* C13: in gtcUpdated.py's generate_test_cases, a field that lacks
\* data_type, mandatory_field or primary_key is skipped: no model call is
\* ever made for it, the result mapping never holds its key on its account
\* (only a complete field of the same key can put it there), and the fields
\* after it are still processed.
C13_IncompleteFieldSkipped ==
    \A i \in 1..Len(rules) :
        Incomplete(i) =>
            /\ calls[i] = 0 /\ history[i] = <<>>
            /\ field_index >= i => i \in skipped
            /\ field_index = i => pc \in {"next_field", "done"}
            /\ KeyOf(i) \in DOMAIN all_test_cases =>
                   \E j \in 1..Len(rules) :
                       /\ ~Incomplete(j) /\ KeyOf(j) = KeyOf(i)
                       /\ \E n \in 1..Len(history[j]) :
                              history[j][n] = all_test_cases[KeyOf(i)]
            /\ pc = "done" =>
                   /\ processed_fields_count = Len(rules)
                   /\ \A j \in (i + 1)..Len(rules) :
                          (~Incomplete(j) /\ max_retries > 0) => calls[j] >= 1

\* a run in which the first field lacks a detail and the second one, which
\* is complete, got its test cases
C13_Witness ==
    /\ pc = "done" /\ Len(rules) = 2
    /\ Incomplete(1) /\ ~Incomplete(2)
    /\ calls[1] = 0 /\ calls[2] >= 1
    /\ DOMAIN saved.mapping = {KeyOf(2)}
    /\ KeyOf(1) # KeyOf(2)

\* C14: in gtcUpdated.py's generate_test_cases, when the rules cannot be
\* read the run ends with an error outcome for the caller, no model call is
\* made and no result file is written.
C14_UnreadableRulesSurfaced ==
    (~rules_file.readable /\ pc # "start")
        => /\ pc = "raised"
           /\ calls = <<>>
           /\ ~saved.written

\* C17: during a run of generate_test_cases the result mapping is only ever
\* appended to: a key that is stored keeps its sequence and its place,
\* whatever field is processed later (one of the same composite key
\* included).
C17_MappingOnlyAppended ==
    [][/\ \A k \in DOMAIN all_test_cases :
              /\ k \in DOMAIN all_test_cases'
              /\ all_test_cases'[k] = all_test_cases[k]
       /\ Len(key_order') >= Len(key_order)
       /\ SubSeq(key_order', 1, Len(key_order)) = key_order]_vars

\* sub can be had from seq by leaving elements out
RECURSIVE IsSubsequence(_, _)
IsSubsequence(sub, seq) ==
    IF sub = <<>> THEN TRUE
    ELSE IF seq = <<>> THEN FALSE
    ELSE IF Head(sub) = Head(seq) THEN IsSubsequence(Tail(sub), Tail(seq))
    ELSE IsSubsequence(sub, Tail(seq))

\* C15: in gtc.py's _parse_llm_response, the returned sequence is a
\* subsequence of the parsed array: its records are records of the array, in
\* the order of the array, each taken at most once.
C15_ReturnedIsSubsequence ==
    (papplied = "gtc" /\ ~pout.value.none)
        => /\ ParsedArray.text = "array"
           /\ IsSubsequence([j \in 1..Len(pout.value.cases) |-> DictEl(pout.value.cases[j])],
                            ParsedArray.items)

\* an array of two different records, both returned
C15_Witness ==
    /\ papplied = "gtc" /\ ~pout.value.none
    /\ Len(ParsedArray.items) = 2
    /\ ParsedArray.items[1] # ParsedArray.items[2]
    /\ Len(pout.value.cases) = 2

-----------------------------------------------------------------------------
(* Further properties of generate_test_cases (src/gtc.py), checked under   *)
(* Spec                                                                    *)

\* the keys stored by the first n fields, in the order of their processing
RECURSIVE ProcessedKeys(_)
ProcessedKeys(n) ==
    IF n = 0 THEN <<>>
    ELSE IF n \notin skipped /\ KeyOf(n) \in DOMAIN all_test_cases
         THEN Append(ProcessedKeys(n - 1), KeyOf(n))
         ELSE ProcessedKeys(n - 1)

\* C16: in gtc.py's generate_test_cases, the keys of the result mapping
\* stand in the order in which their fields were processed, and that is the
\* order handed to persistence, whether a field succeeded at once, late, or
\* not at all.
C16_KeyOrderIsProcessingOrder ==
    /\ key_order = ProcessedKeys(field_index)
    /\ pc = "done" =>
          /\ saved.written
          /\ saved.keys = ProcessedKeys(Len(rules))
          /\ DOMAIN saved.mapping = {saved.keys[n] : n \in 1..Len(saved.keys)}

\* the first field was exhausted and the second one succeeded on a later
\* attempt
C16_Witness ==
    /\ pc = "done" /\ Len(rules) = 2
    /\ saved.keys = <<KeyOf(1), KeyOf(2)>>
    /\ saved.mapping[KeyOf(1)] = <<>> /\ calls[1] = max_retries
    /\ saved.mapping[KeyOf(2)] # <<>> /\ calls[2] >= 2

-----------------------------------------------------------------------------
(* Further properties of the validators, checked under SpecValidate *)

\* C18: in gtc.py, a record the validator accepts has a test_case that is a
\* non-empty string; a record whose test_case is "" or no string is
\* discarded.
C18_TestCaseNonEmptyString ==
    (vapplied = "gtc" /\ vout.ok)
        => (IsInstanceStr(vcase.test_case) /\ vcase.test_case.s # <<>>)

\* C19: in gtc.py, a record the validator accepts has an input that is null,
\* a string, a number or a boolean; an array or an object is never accepted,
\* whatever the declared type and the expected_result.
C19_InputIsScalar ==
    (vapplied = "gtc" /\ vout.ok)
        => vcase.input.t \in {"null", "str", "int", "float", "bool"}

-----------------------------------------------------------------------------
(* Rule extraction: src/pe.py (extract_rules_from_dataframe, second pass)  *)
(* and src/parse_excel.py (extract_rules_from_dataframe), applied to the   *)
(* rows of one schema.  A cell is empty (NaN) or holds a string.           *)

MaxRows == 2

NaN == [nan |-> TRUE, s |-> <<>>]
Cell(chars) == [nan |-> FALSE, s |-> chars]
Row(attribute, data_type) == [attribute |-> attribute, data_type |-> data_type]

\* str(value) of a cell
Str(cell) == IF cell.nan THEN <<"n","a","n">> ELSE cell.s

RECURSIVE StrStrip(_)
\* str.strip() of a string
StrStrip(s) ==
    IF s = <<>> THEN <<>>
    ELSE IF Head(s) \in {" ", "\n", "\t", "\r"} THEN StrStrip(Tail(s))
    ELSE IF s[Len(s)] \in {" ", "\n", "\t", "\r"} THEN StrStrip(SubSeq(s, 1, Len(s) - 1))
    ELSE s

RECURSIVE BeforeParen(_)
\* s.split('(')[0]
BeforeParen(s) ==
    IF s = <<>> \/ Head(s) = "(" THEN <<>>
    ELSE <<Head(s)>> \o BeforeParen(Tail(s))

T_String == <<"S","t","r","i","n","g">>
T_Date == <<"D","a","t","e">>
T_DateTime == <<"D","a","t","e","T","i","m","e">>
T_Integer == <<"I","n","t","e","g","e","r">>
T_Long == <<"L","o","n","g">>
T_Float == <<"F","l","o","a","t">>
T_Boolean == <<"B","o","o","l","e","a","n">>

\* src/pe.py lines 114-127, with the default of line 214
type_mapping(raw) ==
    CASE raw = <<"d","a","t","e","t","i","m","e">> -> T_Date
      [] raw = <<"d","a","t","e">> -> T_Date
      [] raw = <<"t","i","m","e","s","t","a","m","p">> -> T_Date
      [] raw = <<"i","n","t">> -> T_Integer
      [] raw = <<"i","n","t","e","g","e","r">> -> T_Integer
      [] raw = <<"f","l","o","a","t">> -> T_Float
      [] raw = <<"d","e","c","i","m","a","l">> -> T_Float
      [] raw = <<"b","o","o","l","e","a","n">> -> T_Boolean
      [] raw = <<"b","o","o","l">> -> T_Boolean
      [] raw = <<"s","t","r","i","n","g">> -> T_String
      [] raw = <<"t","e","x","t">> -> T_String
      [] raw = <<"o","b","j","e","c","t">> -> T_String
      [] OTHER -> T_String

\* src/pe.py lines 209-211
pe_raw_data_type(cell) ==
    StrStrip(BeforeParen(IF cell.nan THEN <<"s","t","r","i","n","g">>
                         ELSE Lower(StrStrip(Str(cell)))))

\* src/pe.py lines 208-214
pe_data_type(cell) == type_mapping(pe_raw_data_type(cell))

\* src/parse_excel.py line 109
parse_excel_data_type(cell) ==
    IF cell.nan THEN T_String ELSE StrStrip(Str(cell))

\* a field of the extracted rules
Extracted(field_name, data_type) == [field_name |-> field_name, data_type |-> data_type]

HasField(fields, name) == \E n \in 1..Len(fields) : fields[n].field_name = name

\* fields[name] = value of a dict: a present key keeps its place
SetEntry(fields, name, data_type) ==
    IF HasField(fields, name)
    THEN [n \in 1..Len(fields) |->
             IF fields[n].field_name = name THEN Extracted(name, data_type)
             ELSE fields[n]]
    ELSE Append(fields, Extracted(name, data_type))

\* src/pe.py lines 178-240: the second pass over the rows
RECURSIVE pe_extract(_, _)
pe_extract(rows, fields) ==
    IF rows = <<>> THEN fields
    ELSE LET row == Head(rows)
             attribute_key == StrStrip(Str(row.attribute))
         IN IF row.attribute.nan \/ attribute_key = <<>> \/ HasField(fields, attribute_key)
            THEN pe_extract(Tail(rows), fields)
            ELSE pe_extract(Tail(rows),
                            SetEntry(fields, attribute_key, pe_data_type(row.data_type)))

\* src/parse_excel.py lines 106-128
RECURSIVE parse_excel_extract(_, _)
parse_excel_extract(rows, fields) ==
    IF rows = <<>> THEN fields
    ELSE parse_excel_extract(Tail(rows),
             SetEntry(fields, StrStrip(Str(Head(rows).attribute)),
                      parse_excel_data_type(Head(rows).data_type)))

\* sample cells
LabelPool ==
    {NaN,
     Cell(<<" ","D","a","t","e","T","i","m","e">>),
     Cell(<<"d","a","t","e">>),
     Cell(<<"I","N","T">>),
     Cell(<<"d","e","c","i","m","a","l","(","1","0",",","2",")">>),
     Cell(<<"v","a","r","c","h","a","r","(","2","0",")">>),
     Cell(T_Boolean),
     Cell(T_String),
     Cell(<<>>),
     Cell(<<"n","u","m","b","e","r">>)}

AttributePool == {NaN, Cell(<<" ">>), Cell(<<"i","d">>), Cell(<<"n","a","m","e">>)}

RowPool == {Row(a, l) : a \in AttributePool, l \in LabelPool}

InitExtract ==
    /\ OrchestratorIdle /\ ValidatorIdle /\ ParserIdle
    /\ xrows \in SeqsUpTo(RowPool, MaxRows)
    /\ xapplied = "none"
    /\ xout = <<>>

\* src/pe.py extract_rules_from_dataframe
ExtractRules ==
    /\ xapplied = "none"
    /\ xout' = pe_extract(xrows, <<>>)
    /\ xapplied' = "pe"
    /\ UNCHANGED <<xrows, orchestrator_vars, validator_vars, parser_vars>>

\* src/parse_excel.py extract_rules_from_dataframe
ExtractRulesParseExcel ==
    /\ xapplied = "none"
    /\ xout' = parse_excel_extract(xrows, <<>>)
    /\ xapplied' = "parse_excel"
    /\ UNCHANGED <<xrows, orchestrator_vars, validator_vars, parser_vars>>

NextExtract == ExtractRules \/ ExtractRulesParseExcel

SpecExtract == InitExtract /\ [][NextExtract]_vars

\* the values of the enumeration of data types
DeclaredDataTypes ==
    {T_String, T_Date, T_DateTime, T_Integer, T_Long, T_Float, T_Boolean}

\* the labels the extraction maps to a type other than by default
MappedLabels ==
    {<<"d","a","t","e","t","i","m","e">>, <<"d","a","t","e">>,
     <<"t","i","m","e","s","t","a","m","p">>, <<"i","n","t">>,
     <<"i","n","t","e","g","e","r">>, <<"f","l","o","a","t">>,
     <<"d","e","c","i","m","a","l">>, <<"b","o","o","l","e","a","n">>,
     <<"b","o","o","l">>, <<"s","t","r","i","n","g">>, <<"t","e","x","t">>,
     <<"o","b","j","e","c","t">>}

\* the row the extracted field n was last written from
SourceRows(name) ==
    {r \in 1..Len(xrows) : StrStrip(Str(xrows[r].attribute)) = name}

\* C20: in rule extraction, a source label that is unknown or missing
\* yields the data type "String", and the data_type of every extracted
\* field is a value of the declared enumeration.
C20_DataTypeInEnum ==
    xapplied # "none" =>
        \A n \in 1..Len(xout) :
            /\ xout[n].data_type \in DeclaredDataTypes
            /\ \E r \in SourceRows(xout[n].field_name) :
                   LET cell == xrows[r].data_type
                   IN (cell.nan \/ pe_raw_data_type(cell) \notin MappedLabels)
                          => xout[n].data_type = T_String

\* C21: in generate_test_cases, fields are processed one after another: a
\* model call is always made for the field being processed, no field after
\* it has been called for yet, and the run never goes back to an earlier
\* field, so the calls of different fields do not interleave.
C21_FieldsProcessedSequentially ==
    [][/\ field_index' >= field_index
       /\ Len(calls') = Len(calls) =>
             \A i \in 1..Len(calls) :
                 calls'[i] # calls[i]
                     => /\ i = field_index /\ field_index' = field_index
                        /\ calls'[i] = calls[i] + 1
                        /\ \A j \in (i + 1)..Len(calls) : calls[j] = 0]_vars

\* two fields, each called for more than once
C21_Witness ==
    /\ pc = "done" /\ Len(rules) = 2
    /\ calls[1] >= 2 /\ calls[2] >= 2

-----------------------------------------------------------------------------
(* Properties of the type validators, checked under SpecValidate *)

\* C22: in gtc.py, for the data_type "Integer" that pe.py emits, a
\* structurally valid "Pass" record whose input is non-null and no native
\* integer is rejected, and every "Fail" record and every record with a null
\* input is accepted.
C22_IntegerPassRejected ==
    (vapplied = "gtc" /\ vtype = "Integer" /\ StructurallyValid(vcase))
        => /\ (/\ vcase.expected_result = JStr(S_Pass)
               /\ vcase.input # JNull
               /\ ~IsInstanceInt(vcase.input)) => ~vout.ok
           /\ (vcase.expected_result = JStr(S_Fail) \/ vcase.input = JNull)
                 => vout.ok

\* the string has the shape dddd-dd-dd dd:dd:dd.dddddd
DateTimeShaped(s) ==
    /\ Len(s) = 26
    /\ \A k \in 1..26 :
          IF k \in {5, 8} THEN s[k] = "-"
          ELSE IF k = 11 THEN s[k] = " "
          ELSE IF k \in {14, 17} THEN s[k] = ":"
          ELSE IF k = 20 THEN s[k] = "."
          ELSE s[k] \in Digits

\* C23: in generated_test_cases.py, for a DateTime field a structurally
\* valid record whose input is a string in the format
\* YYYY-MM-DD HH:MM:SS.ffffff is accepted by _validate_test_case: the input
\* is checked against the formats registered for DateTime.
C23_DateTimeAccepted ==
    (/\ vapplied = "gen" /\ vtype = "DateTime" /\ StructurallyValid(vcase)
     /\ vcase.input.t = "str" /\ DateTimeShaped(vcase.input.s)) => vout.ok

\* C24: in gtc.py, for a String field a record that has the required keys
\* and an expected_result of Pass or Fail is rejected if and only if its
\* input is neither a string nor null and its expected_result is "Pass";
\* every other combination of input and expected_result is accepted.
C24_StringRejectedIff ==
    (vapplied = "gtc" /\ vtype = "String" /\ StructurallyValid(vcase))
        => (~vout.ok <=> /\ vcase.input.t \notin {"str", "null"}
                         /\ vcase.expected_result = JStr(S_Pass))

\* a Fail record with an integer input is accepted
C24_Witness ==
    /\ vapplied = "gtc" /\ vtype = "String" /\ StructurallyValid(vcase)
    /\ vcase.input = JInt(2) /\ vcase.expected_result = JStr(S_Fail)
    /\ vout.ok

-----------------------------------------------------------------------------
(* Further properties of generate_test_cases (src/gtc.py), checked under   *)
(* Spec                                                                    *)

\* the records of the array that pass validation, as the response has them
RECURSIVE ValidRecords(_, _)
ValidRecords(items, data_type) ==
    IF items = <<>> THEN <<>>
    ELSE IF /\ Head(items).kind = "dict"
            /\ validate_test_case(Head(items).case, data_type).ok
         THEN <<Head(items).case>> \o ValidRecords(Tail(items), data_type)
         ELSE ValidRecords(Tail(items), data_type)

\* the response is an array whose elements are all records
ArrayOfRecords(response) ==
    /\ ~response.raises /\ response.text = "array"
    /\ \A i \in 1..Len(response.items) : response.items[i].kind = "dict"

\* C25: in gtc.py, an attempt whose response is an array of records with at
\* least one valid record succeeds whatever the number of invalid records
\* beside it (the retry loop is left, no attempt is counted), and the
\* sequence stored for the field is exactly the valid records in their
\* order; the attempt fails only when the array has no valid record.
C25_InvalidRecordsCostNoAttempt ==
    [][(calls' # calls /\ ArrayOfRecords(last_response'))
        => LET valid == ValidRecords(last_response'.items,
                                     rules[field_index].data_type)
           IN IF valid # <<>>
              THEN /\ pc' = "break" /\ attempt' = attempt
                   /\ KeyOf(field_index) \in DOMAIN all_test_cases'
                   /\ all_test_cases'[KeyOf(field_index)] = valid
              ELSE pc' = "attempt" /\ attempt' = attempt + 1]_vars

\* a Date field answered with one valid and one invalid record
C25_Witness ==
    /\ pc = "break" /\ last_response = R_iso_true
    /\ rules[field_index].data_type = "Date"
    /\ all_test_cases[KeyOf(field_index)] = <<C_pass_iso>>
    /\ attempt = 0

-----------------------------------------------------------------------------
(* Further properties of _parse_llm_response, checked under SpecParse *)

\* what json.loads makes of the text gtcUpdated.py has cleaned
ParsedArrayUpdated == JsonLoads(upd_clean_response_text(ptext))

\* the records (objects) among the elements, in their order
RECURSIVE RecordsOf(_)
RecordsOf(items) ==
    IF items = <<>> THEN <<>>
    ELSE IF Head(items).kind = "dict"
         THEN <<Head(items).case>> \o RecordsOf(Tail(items))
         ELSE RecordsOf(Tail(items))

\* the records gtcUpdated.py's validator accepts once expected_result is in
\* its canonical form, in their order
RECURSIVE AcceptedUpdated(_, _)
AcceptedUpdated(cases, data_type) ==
    IF cases = <<>> THEN <<>>
    ELSE LET case == upd_normalize_expected_result(Head(cases))
         IN IF upd_validate_test_case(case, data_type).ok
            THEN <<case>> \o AcceptedUpdated(Tail(cases), data_type)
            ELSE AcceptedUpdated(Tail(cases), data_type)

\* C26: in gtcUpdated.py's _parse_llm_response, every element of the parsed
\* array that is no record (a string, a number, a boolean, null or a nested
\* array) is dropped, and the records that remain are validated and
\* returned in their order.
C26_NonRecordsDropped ==
    (papplied = "upd" /\ ParsedArrayUpdated.text = "array")
        => /\ ~pout.raised
           /\ pout.value.cases =
                 AcceptedUpdated(RecordsOf(ParsedArrayUpdated.items), ptype)

\* a number between two records
C26_Witness ==
    /\ papplied = "upd" /\ ptype = "Boolean"
    /\ ParsedArrayUpdated.text = "array"
    /\ Len(ParsedArrayUpdated.items) = 3
    /\ ParsedArrayUpdated.items[2].kind = "int"
    /\ pout.value.cases = <<C_pass_true, C_fail_one>>

\* the top-level value is an object with exactly one key whose value is an
\* array
SingleArrayObject(loaded) ==
    /\ loaded.text = "object"
    /\ Len(loaded.items) = 1
    /\ loaded.items[1].kind = "list"

\* C27: in gtcUpdated.py's _parse_llm_response, a top-level object with
\* exactly one key whose value is an array is unwrapped and that array is
\* processed as the list of records; for any other top-level value that is
\* no array (an object with several keys, an object whose single value is no
\* array, a scalar) parsing fails and no record is returned.
C27_SingleKeyObjectUnwrapped ==
    (papplied = "upd" /\ ParsedArrayUpdated.text \in {"object", "scalar"})
        => /\ ~pout.raised
           /\ IF SingleArrayObject(ParsedArrayUpdated)
              THEN pout.value.cases =
                      AcceptedUpdated(
                          RecordsOf(ParsedArrayUpdated.items[1].items), ptype)
              ELSE pout.value.none

\* the array of two records under one key
C27_Witness ==
    /\ papplied = "upd" /\ ptype = "Boolean"
    /\ SingleArrayObject(ParsedArrayUpdated)
    /\ pout.value.cases = <<C_pass_true, C_fail_one>>

\* the records generated_test_cases.py's validator accepts, in their order
RECURSIVE AcceptedGenerated(_, _)
AcceptedGenerated(cases, data_type) ==
    IF cases = <<>> THEN <<>>
    ELSE IF gen_validate_test_case(Head(cases), data_type).ok
         THEN <<Head(cases)>> \o AcceptedGenerated(Tail(cases), data_type)
         ELSE AcceptedGenerated(Tail(cases), data_type)

HasProse(before, after) == before # <<>> \/ after # <<>>

\* C28: in generated_test_cases.py's _parse_llm_response, a response that
\* is a JSON array of records with prose before and/or after it, the prose
\* holding no bracket, yields exactly what the embedded array yields: its
\* records that pass validation, in their order (the span from the first
\* "[" to the last "]" of the cleaned text is what is parsed).
C28_ArrayInProseParsed ==
    papplied = "gen" =>
        \A before \in ProseBefore, after \in ProseAfter, cases \in ProseArrays :
            (/\ HasProse(before, after)
             /\ ptext = before \o ArrayText(cases, <<>>) \o after)
                => /\ ~pout.raised /\ ~pout.value.none
                   /\ pout.value.cases = AcceptedGenerated(cases, ptype)
                   /\ pout = gen_parse_llm_response_text(
                                 ArrayText(cases, <<>>), ptype)

\* two records between a fenced introduction and a closing remark
C28_Witness ==
    /\ papplied = "gen" /\ ptype = "String"
    /\ \E before \in ProseBefore \ {<<>>}, after \in ProseAfter \ {<<>>} :
          ptext = before \o ArrayText(<<C_pass_iso, C_fail_one>>, <<>>) \o after
    /\ pout.value.cases = <<C_pass_iso, C_fail_one>>

\* C29: in gtc.py's _parse_llm_response, discarding an element of the parsed
\* array is never fatal to the others: whatever else the array holds
\* (records missing keys, records with a bad expected_result, elements that
\* are no records such as null or a number), every valid record of the
\* array is returned.
C29_DiscardNeverFatal ==
    (papplied = "gtc" /\ ParsedArray.text = "array")
        => \A i \in 1..Len(ParsedArray.items) :
              (/\ ParsedArray.items[i].kind = "dict"
               /\ validate_test_case(ParsedArray.items[i].case, ptype).ok)
                  => /\ ~pout.raised /\ ~pout.value.none
                     /\ \E k \in 1..Len(pout.value.cases) :
                           pout.value.cases[k] = ParsedArray.items[i].case

\* what json.loads makes of the response as it is
ParsedDirectly == JsonLoads(ptext)

\* the response is a JSON array of one or more records that gtcUpdated.py's
\* validator accepts as they are
WellFormedArray(data_type) ==
    /\ ParsedDirectly.text = "array"
    /\ ParsedDirectly.items # <<>>
    /\ \A i \in 1..Len(ParsedDirectly.items) :
          /\ ParsedDirectly.items[i].kind = "dict"
          /\ StructurallyValid(ParsedDirectly.items[i].case)
          /\ upd_validate_test_case(ParsedDirectly.items[i].case, data_type).ok

\* C30: in gtcUpdated.py's _parse_llm_response, the repair passes (fence
\* stripping, removal of trailing commas, substitution of None/True/False)
\* change nothing of a well-formed response: for a response that is a valid
\* JSON array of valid records, the records returned are the records that
\* parsing the response directly gives, the contents of every string value
\* included.
C30_RepairsAreNoOps ==
    (papplied = "upd" /\ WellFormedArray(ptype))
        => /\ ~pout.raised
           /\ pout.value.cases = RecordsOf(ParsedDirectly.items)

====
